---- MODULE Spec2Model ----
(***************************************************************************)
(* A model of PyGate (vk3heg/pygate): the FidoNet packet codec             *)
(* (src/src/fidonet_module.py), the packet repair utility                  *)
(* (src/src/packet_repair.py), the NNTP client (src/src/nntp_client.py)    *)
(* and the packet import run of the gateway (src/src/gateway.py).          *)
(*                                                                         *)
(* Bytes are naturals 0..255 and a file is a sequence of bytes.  A file    *)
(* offset is 0-based, as in the Python source: the byte at offset p of     *)
(* data is data[p + 1].  A Python str is a sequence of code points.        *)
(***************************************************************************)
EXTENDS Integers, Sequences, FiniteSets, TLC

\* ------------------------------------------------------------------ bounds

\* Longest exhaustively enumerated message text of an inbound packet.
MaxText == 3
\* Most messages in one inbound packet and most messages handed to the writer.
MaxMsgs == 2
\* How far the to/from names and the subject handed to the writer may exceed
\* the field limits of write_message.
MaxOver == 2

\* ------------------------------------------------------- program constants

\* f.read(58): the packet header.
PKT_HEADER_LEN == 58
\* f.read(14): version word and the 12-byte message record.
MSG_HEADER_LEN == 14
\* The fixed date field written by write_message.
DATE_LEN == 20
\* to_name[:35], from_name[:35], subject[:71].
NAME_MAX == 35
SUBJECT_MAX == 71

NUL == 0
LF == 10
CR == 13

\* ----------------------------------------------------------------- helpers

Slice(data, from, to) == SubSeq(data, from + 1, to)

\* struct.unpack('<H', ...) at offset pos.
U16(data, pos) == data[pos + 1] + 256 * data[pos + 2]

\* struct.pack('<H', v) for 0 <= v <= 65535.
Pack16(v) == <<v % 256, v \div 256>>

RECURSIVE Scan(_, _, _)
\* The first offset >= pos whose byte is in S, Len(data) when there is none:
\* the loop of f.read(1) calls that stops on a byte of S or at end of file.
Scan(data, pos, S) ==
    IF pos >= Len(data) THEN Len(data)
    ELSE IF data[pos + 1] \in S THEN pos
    ELSE Scan(data, pos + 1, S)

RECURSIVE Flatten(_)
\* The concatenation of the sequences of ss.
Flatten(ss) ==
    IF ss = <<>> THEN <<>>
    ELSE IF Len(ss) = 1 THEN ss[1]
    ELSE LET half == Len(ss) \div 2
         IN Flatten(SubSeq(ss, 1, half)) \o Flatten(SubSeq(ss, half + 1, Len(ss)))

RECURSIVE Join(_, _)
\* sep.join(ss)
Join(ss, sep) ==
    IF ss = <<>> THEN <<>>
    ELSE IF Len(ss) = 1 THEN ss[1]
    ELSE ss[1] \o sep \o Join(Tail(ss), sep)

StartsWith(s, p) == Len(s) >= Len(p) /\ SubSeq(s, 1, Len(p)) = p

\* str.strip(): the white space of the code points below 128.
WhiteSpace == {9, 10, 11, 12, 13, 28, 29, 30, 31, 32}

RECURSIVE LStrip(_)
LStrip(s) == IF s # <<>> /\ Head(s) \in WhiteSpace THEN LStrip(Tail(s)) ELSE s

RECURSIVE RStrip(_)
RStrip(s) ==
    IF s # <<>> /\ s[Len(s)] \in WhiteSpace THEN RStrip(SubSeq(s, 1, Len(s) - 1)) ELSE s

Strip(s) == RStrip(LStrip(s))

\* The set of all sequences over S of length at most n.
RECURSIVE SeqsUpTo(_, _)
SeqsUpTo(S, n) ==
    IF n = 0 THEN {<<>>}
    ELSE LET shorter == SeqsUpTo(S, n - 1)
         IN shorter \cup {Append(s, x) : s \in shorter, x \in S}

\* ------------------------------------------------------------------ cp437

\* The code points of the cp437 bytes 128..255 (Python's cp437 codec); the
\* bytes 0..127 are the code points 0..127.
Cp437High ==
    <<199, 252, 233, 226, 228, 224, 229, 231, 234, 235, 232, 239, 238, 236, 196,
      197, 201, 230, 198, 244, 246, 242, 251, 249, 255, 214, 220, 162, 163, 165,
      8359, 402, 225, 237, 243, 250, 241, 209, 170, 186, 191, 8976, 172, 189,
      188, 161, 171, 187, 9617, 9618, 9619, 9474, 9508, 9569, 9570, 9558, 9557,
      9571, 9553, 9559, 9565, 9564, 9563, 9488, 9492, 9524, 9516, 9500, 9472,
      9532, 9566, 9567, 9562, 9556, 9577, 9574, 9568, 9552, 9580, 9575, 9576,
      9572, 9573, 9561, 9560, 9554, 9555, 9579, 9578, 9496, 9484, 9608, 9604,
      9612, 9616, 9600, 945, 223, 915, 960, 931, 963, 181, 964, 934, 920, 937,
      948, 8734, 966, 949, 8745, 8801, 177, 8805, 8804, 8992, 8993, 247, 8776,
      176, 8729, 183, 8730, 8319, 178, 9632, 160>>

\* bytes.decode('cp437'): every byte has a code point.
DecodeCp437(bytes) ==
    [i \in 1..Len(bytes) |->
        IF bytes[i] < 128 THEN bytes[i] ELSE Cp437High[bytes[i] - 127]]

\* One code point of str.encode('cp437', errors='replace'): '?' for a code
\* point cp437 does not have.
EncodeChar(c) ==
    IF c < 128 THEN c
    ELSE IF \E i \in 1..128 : Cp437High[i] = c
         THEN 127 + (CHOOSE i \in 1..128 : Cp437High[i] = c)
         ELSE 63

EncodeCp437(str) == [i \in 1..Len(str) |-> EncodeChar(str[i])]

\* ------------------------------------------------------ string literals

\* The string literals of fidonet_module.py that start a line:
\* 'AREA:', 'SEEN-BY:', '---', ' * Origin:', '# Origin:', 'MSGID:', 'REPLY:',
\* 'TID:', 'PID:', 'TZUTC:', 'TZUTCINFO:', 'CHRS:', 'CHARSET:', 'CODEPAGE:'.
Lit ==
    [AREA |-> <<65, 82, 69, 65, 58>>,
     SEENBY |-> <<83, 69, 69, 78, 45, 66, 89, 58>>,
     TEAR |-> <<45, 45, 45>>,
     ORIGIN |-> <<32, 42, 32, 79, 114, 105, 103, 105, 110, 58>>,
     GWORIGIN |-> <<35, 32, 79, 114, 105, 103, 105, 110, 58>>,
     MSGID |-> <<77, 83, 71, 73, 68, 58>>,
     REPLY |-> <<82, 69, 80, 76, 89, 58>>,
     TID |-> <<84, 73, 68, 58>>,
     PID |-> <<80, 73, 68, 58>>,
     TZUTC |-> <<84, 90, 85, 84, 67, 58>>,
     TZUTCINFO |-> <<84, 90, 85, 84, 67, 73, 78, 70, 79, 58>>,
     CHRS |-> <<67, 72, 82, 83, 58>>,
     CHARSET |-> <<67, 72, 65, 82, 83, 69, 84, 58>>,
     CODEPAGE |-> <<67, 79, 68, 69, 80, 65, 71, 69, 58>>]

\* ------------------------------------------------ FidoNetModule: parsing

\* read_null_string: bytes up to a null or the end of the file; the null is
\* consumed.  len is the number of bytes the call consumed.
ReadNullString(data, pos) ==
    LET e == Scan(data, pos, {NUL})
        next == IF e < Len(data) THEN e + 1 ELSE e
    IN [str |-> DecodeCp437(Slice(data, pos, e)), pos |-> next, len |-> next - pos]

\* read_line: kind "eof" is the None result; kind "nul" is the '' returned on
\* a null byte, which drops the bytes read before it; kind "line" is a line
\* ended by CR, LF or CRLF.  A CR that is the last byte of the file is put
\* back by f.seek(-1, 1), because the f.read(1) after it read nothing.
ReadLine(data, pos) ==
    LET e == Scan(data, pos, {NUL, CR, LF})
    IN IF e >= Len(data) THEN [kind |-> "eof", line |-> <<>>, pos |-> Len(data)]
       ELSE IF data[e + 1] = NUL THEN [kind |-> "nul", line |-> <<>>, pos |-> e + 1]
       ELSE IF data[e + 1] = LF
            THEN [kind |-> "line", line |-> DecodeCp437(Slice(data, pos, e)), pos |-> e + 1]
       ELSE [kind |-> "line", line |-> DecodeCp437(Slice(data, pos, e)),
             pos |-> IF e + 1 >= Len(data) THEN e
                     ELSE IF data[e + 2] = LF THEN e + 2 ELSE e + 1]

\* The control-line test of the body loop of parse_packet.
IsControlLine(line) ==
    \/ StartsWith(line, <<1>>)
    \/ StartsWith(line, Lit.AREA)
    \/ StartsWith(line, Lit.SEENBY)
    \/ StartsWith(line, Lit.TEAR)
    \/ StartsWith(line, Lit.ORIGIN)
    \/ StartsWith(line, Lit.GWORIGIN)

\* One non-empty line of the body loop: a kludge loses its ^A, AREA: sets the
\* area, any line that is not a control line is body text.
AddLine(acc, line) ==
    IF StartsWith(line, <<1>>)
    THEN [acc EXCEPT !.control_lines = Append(@, Tail(line))]
    ELSE IF StartsWith(line, Lit.AREA)
    THEN [acc EXCEPT !.area = Strip(SubSeq(line, 6, Len(line))),
                     !.control_lines = Append(@, line)]
    ELSE IF IsControlLine(line)
    THEN [acc EXCEPT !.control_lines = Append(@, line)]
    ELSE [acc EXCEPT !.body_lines = Append(@, line)]

EmptyBody ==
    [body_lines |-> <<>>, control_lines |-> <<>>, area |-> <<>>, pos |-> 0,
     nulls |-> <<>>, hang |-> FALSE]

RECURSIVE ParseBody(_, _, _)
\* The body loop of parse_packet from offset pos.  nulls logs every null byte
\* the loop met in the text, with the offset and whether the message ended
\* there.  hang: the loop never ends (a CR as the last byte of the file is
\* read again and again).
ParseBody(data, pos, acc) ==
    LET r == ReadLine(data, pos)
        p == r.pos
        atEof == p >= Len(data)
    IN IF r.kind = "eof" THEN [acc EXCEPT !.pos = p]
       ELSE IF r.line = <<>>
       THEN IF atEof \/ data[p + 1] = NUL
            THEN [acc EXCEPT
                    !.pos = IF atEof THEN p ELSE p + 1,
                    !.nulls = IF r.kind = "nul"
                              THEN Append(@, [at |-> p - 1, ended |-> TRUE])
                              ELSE IF atEof THEN @
                              ELSE Append(@, [at |-> p, ended |-> TRUE])]
            ELSE IF p = pos THEN [acc EXCEPT !.pos = p, !.hang = TRUE]
            ELSE ParseBody(data, p,
                    [acc EXCEPT
                       !.nulls = IF r.kind = "nul"
                                 THEN Append(@, [at |-> p - 1, ended |-> FALSE])
                                 ELSE @])
       ELSE ParseBody(data, p, AddLine(acc, r.line))

\* The value after the prefix of the last control line that starts with one
\* of the prefixes, stripped; <<>> when there is none.
RECURSIVE LastKludge(_, _)
LastKludge(control_lines, prefixes) ==
    IF control_lines = <<>> THEN <<>>
    ELSE LET line == control_lines[Len(control_lines)]
             hits == {p \in prefixes : StartsWith(line, p)}
         IN IF hits # {}
            THEN LET p == CHOOSE q \in hits : \A o \in hits : Len(q) <= Len(o)
                 IN Strip(SubSeq(line, Len(p) + 1, Len(line)))
            ELSE LastKludge(SubSeq(control_lines, 1, Len(control_lines) - 1), prefixes)

\* extract_message_ids, for the kludges MSGID, REPLY and TZUTC (TZUTCINFO).
ExtractMsgid(control_lines) == LastKludge(control_lines, {Lit.MSGID})
ExtractReply(control_lines) == LastKludge(control_lines, {Lit.REPLY})
ExtractTzutc(control_lines) == LastKludge(control_lines, {Lit.TZUTC, Lit.TZUTCINFO})

RECURSIVE ParseMessages(_, _, _)
\* The message loop of parse_packet from offset pos.  stop records why the
\* loop ended and at which offset.
ParseMessages(data, pos, acc) ==
    IF Len(data) - pos < MSG_HEADER_LEN
    THEN [acc EXCEPT !.stop = [why |-> "short_header", at |-> pos]]
    ELSE
    LET version == U16(data, pos) IN
    IF version = 0 THEN [acc EXCEPT !.stop = [why |-> "end_marker", at |-> pos]]
    ELSE IF version # 2 THEN [acc EXCEPT !.stop = [why |-> "bad_version", at |-> pos]]
    ELSE
    LET d == ReadNullString(data, pos + MSG_HEADER_LEN)
        t == ReadNullString(data, d.pos)
        f == ReadNullString(data, t.pos)
        s == ReadNullString(data, f.pos)
        b == ParseBody(data, s.pos, EmptyBody)
        message == [to_name |-> t.str, from_name |-> f.str, subject |-> s.str,
                    text |-> Join(b.body_lines, <<LF>>),
                    control_lines |-> b.control_lines,
                    orig_net |-> U16(data, pos + 6), orig_node |-> U16(data, pos + 2),
                    dest_net |-> U16(data, pos + 8), dest_node |-> U16(data, pos + 4),
                    date_written |-> d.str, attr |-> U16(data, pos + 10),
                    area |-> b.area,
                    msgid |-> ExtractMsgid(b.control_lines),
                    reply |-> ExtractReply(b.control_lines),
                    tzutc |-> ExtractTzutc(b.control_lines),
                    at |-> pos, date_len |-> d.len, text_at |-> s.pos, end |-> b.pos]
        acc2 == [acc EXCEPT !.msgs = Append(@, message), !.nulls = @ \o b.nulls]
    IN IF b.hang THEN [acc2 EXCEPT !.outcome = "hang", !.stop = [why |-> "hang", at |-> b.pos]]
       ELSE IF Len(data) - b.pos < MSG_HEADER_LEN
       THEN [acc2 EXCEPT !.stop = [why |-> "short_header", at |-> b.pos]]
       ELSE IF U16(data, b.pos) \notin {0, 2}
       THEN [acc2 EXCEPT !.stop = [why |-> "bad_version", at |-> b.pos]]
       ELSE ParseMessages(data, b.pos, acc2)

\* parse_packet.  outcome "returned": the call returned the list msgs; the
\* source has no path on which a byte of the file makes it raise (the whole
\* body is inside try/except Exception, and the handler returns the list too).
\* outcome "hang": the call never returns.
ParsePacket(data) ==
    IF Len(data) < PKT_HEADER_LEN
    THEN [msgs |-> <<>>, nulls |-> <<>>, outcome |-> "returned",
          stop |-> [why |-> "short_packet_header", at |-> 0]]
    ELSE ParseMessages(data, PKT_HEADER_LEN,
            [msgs |-> <<>>, nulls |-> <<>>, outcome |-> "returned",
             stop |-> [why |-> "none", at |-> 0]])

\* ------------------------------------------------ PacketRepairer

\* PacketRepairer.read_null_string: the position after the null, or the end
\* of the data when there is no null.
RepReadNullString(data, pos) ==
    LET e == Scan(data, pos, {NUL})
    IN [str |-> Slice(data, pos, e), pos |-> IF e < Len(data) THEN e + 1 ELSE e]

\* The is_terminator test of analyze_packet and repair_packet for the null at
\* offset pos: the next byte is 0, or the next 16-bit word is 2.
IsTerminator(data, pos) ==
    /\ pos + 1 < Len(data)
    /\ \/ data[pos + 2] = 0
       \/ pos + 2 < Len(data) /\ U16(data, pos + 1) = 2

RECURSIVE AnalyzeFields(_, _, _)
\* The loop over date, to, from and subject of analyze_packet, k fields left.
AnalyzeFields(data, pos, k) ==
    IF k = 0 THEN [ok |-> TRUE, pos |-> pos]
    ELSE IF pos >= Len(data) THEN [ok |-> FALSE, pos |-> pos]
    ELSE AnalyzeFields(data, RepReadNullString(data, pos).pos, k - 1)

RECURSIVE AnalyzeText(_, _, _)
\* The text loop of analyze_packet: the offsets of the embedded nulls, and the
\* position after the terminator (or the end of the data).
AnalyzeText(data, pos, nulls) ==
    IF pos >= Len(data) THEN [pos |-> pos, nulls |-> nulls]
    ELSE IF data[pos + 1] = NUL
    THEN IF IsTerminator(data, pos)
         THEN [pos |-> pos + 1, nulls |-> nulls]
         ELSE AnalyzeText(data, pos + 1, Append(nulls, pos))
    ELSE AnalyzeText(data, pos + 1, nulls)

RECURSIVE AnalyzeMessages(_, _, _)
AnalyzeMessages(data, pos, acc) ==
    IF ~(pos < Len(data) - 2) THEN acc
    ELSE IF U16(data, pos) = 0 THEN acc
    ELSE IF U16(data, pos) # 2 THEN [acc EXCEPT !.errors = @ + 1]
    ELSE
    LET fl == AnalyzeFields(data, pos + MSG_HEADER_LEN, 4)
        tx == AnalyzeText(data, fl.pos, <<>>)
        acc2 == [acc EXCEPT !.messages = @ + 1]
    IN IF ~fl.ok THEN [acc2 EXCEPT !.valid = FALSE, !.errors = @ + 1]
       ELSE AnalyzeMessages(data, tx.pos,
                [acc2 EXCEPT !.embedded_nulls = @ \o tx.nulls])

\* analyze_packet: errors is the number of entries of the errors list.
AnalyzePacket(data) ==
    IF Len(data) < PKT_HEADER_LEN
    THEN [valid |-> FALSE, messages |-> 0, embedded_nulls |-> <<>>, errors |-> 1]
    ELSE AnalyzeMessages(data, PKT_HEADER_LEN,
            [valid |-> TRUE, messages |-> 0, embedded_nulls |-> <<>>, errors |-> 0])

RECURSIVE RepairFields(_, _, _, _)
\* The copy of date, to, from and subject of repair_packet: each field is
\* written with a null after it.
RepairFields(data, pos, k, out) ==
    IF k = 0 THEN [pos |-> pos, out |-> out]
    ELSE LET r == RepReadNullString(data, pos)
         IN RepairFields(data, r.pos, k - 1, out \o r.str \o <<NUL>>)

RECURSIVE RepairText(_, _, _)
\* The text loop of repair_packet: the text is written, with its terminator,
\* only when a terminator is found; an embedded null is skipped.
RepairText(data, pos, text) ==
    IF pos >= Len(data) THEN [pos |-> pos, out |-> <<>>]
    ELSE IF data[pos + 1] = NUL
    THEN IF IsTerminator(data, pos)
         THEN [pos |-> pos + 1, out |-> text \o <<NUL>>]
         ELSE RepairText(data, pos + 1, text)
    ELSE RepairText(data, pos + 1, Append(text, data[pos + 1]))

RECURSIVE RepairMessages(_, _, _)
\* The rebuild loop of repair_packet.
RepairMessages(data, pos, out) ==
    IF ~(pos < Len(data) - 2) THEN out
    ELSE IF U16(data, pos) = 0 THEN out \o <<0, 0>>
    ELSE IF U16(data, pos) # 2 THEN out
    ELSE
    LET hdrEnd == IF pos + MSG_HEADER_LEN <= Len(data)
                  THEN pos + MSG_HEADER_LEN ELSE Len(data)
        fl == RepairFields(data, pos + MSG_HEADER_LEN, 4, out \o Slice(data, pos, hdrEnd))
        tx == RepairText(data, fl.pos, <<>>)
    IN RepairMessages(data, tx.pos, fl.out \o tx.out)

\* repair_packet: raised is PacketRepairError.
RepairPacket(data) ==
    LET analysis == AnalyzePacket(data)
    IN IF ~analysis.valid THEN [raised |-> TRUE, data |-> <<>>]
       ELSE IF analysis.embedded_nulls = <<>> THEN [raised |-> FALSE, data |-> data]
       ELSE [raised |-> FALSE,
             data |-> RepairMessages(data, PKT_HEADER_LEN, Slice(data, 0, PKT_HEADER_LEN))]

\* ------------------------------------------------ FidoNetModule: writing

\* dict.get(key, default)
Get(m, key, default) == IF key \in DOMAIN m THEN m[key] ELSE default

\* The truth value of message.get(key) for a str or list value.
Truthy(m, key) == key \in DOMAIN m /\ m[key] # <<>>

RECURSIVE Dec(_)
\* str(n) for n >= 0
Dec(n) == IF n < 10 THEN <<48 + n>> ELSE Append(Dec(n \div 10), 48 + (n % 10))

\* Two digits, zero padded (%d, %y, %H, %M, %S of strftime).
Dec2(n) == <<48 + ((n \div 10) % 10), 48 + (n % 10)>>

\* %b of strftime in the C locale.
MonthNames ==
    <<<<74, 97, 110>>, <<70, 101, 98>>, <<77, 97, 114>>, <<65, 112, 114>>, <<77, 97, 121>>, <<74, 117, 110>>,
      <<74, 117, 108>>, <<65, 117, 103>>, <<83, 101, 112>>, <<79, 99, 116>>, <<78, 111, 118>>, <<68, 101, 99>>>>

\* datetime.strftime('%d %b %y  %H:%M:%S')
FormatDate(dt) ==
    Dec2(dt.day) \o <<32>> \o MonthNames[dt.month] \o <<32>> \o Dec2(dt.year % 100)
    \o <<32, 32>> \o Dec2(dt.hour) \o <<58>> \o Dec2(dt.minute) \o <<58>> \o Dec2(dt.second)

\* bytes.ljust(n, b' ') when shorter than n, bytes[:n] when longer.
FitTo(bytes, n) ==
    IF Len(bytes) < n THEN bytes \o [i \in 1..(n - Len(bytes)) |-> 32]
    ELSE SubSeq(bytes, 1, n)

\* The date field of write_message.
DateField(dt) == FitTo(EncodeCp437(FormatDate(dt)), DATE_LEN)

\* The slice value[:limit + 1]: a limit that is off by one.
TruncateOffByOne(str, limit) ==
    IF Len(str) > limit + 1 THEN SubSeq(str, 1, limit + 1) ELSE str

\* value[:limit] of write_message (to_name, from_name, subject).
Truncate(str, limit) == IF Len(str) > limit THEN SubSeq(str, 1, limit) ELSE str

\* A to_name, from_name or subject field of write_message: truncated,
\* encoded, null terminated.
NameField(str, limit) == EncodeCp437(Truncate(str, limit)) \o <<NUL>>

RECURSIVE CollapseCR(_)
\* str.replace('\r\r', '\r'): one pass, left to right, not overlapping.
CollapseCR(s) ==
    IF Len(s) < 2 THEN s
    ELSE IF s[1] = CR /\ s[2] = CR THEN <<CR>> \o CollapseCR(SubSeq(s, 3, Len(s)))
    ELSE <<s[1]>> \o CollapseCR(Tail(s))

\* cleaned_text of write_message:
\* text.replace('\x00', '').replace('\n', '\r').replace('\r\r', '\r')
CleanText(text) ==
    LET noNul == SelectSeq(text, LAMBDA c : c # NUL)
        crOnly == [i \in 1..Len(noNul) |-> IF noNul[i] = LF THEN CR ELSE noNul[i]]
    IN CollapseCR(crOnly)

\* No address seen yet (current_net = None).
NoNet == <<-1>>

RECURSIVE AbbrevList(_, _, _)
\* The SEEN-BY and PATH loops of write_message over 'net/node' strings with
\* at most one '/': the net is written when it differs from the last one.
AbbrevList(addrs, current_net, line) ==
    IF addrs = <<>> THEN line
    ELSE
    LET a == Head(addrs)
        cut == Scan(a, 0, {47})
        net == SubSeq(a, 1, cut)
        node == SubSeq(a, cut + 2, Len(a))
    IN IF cut < Len(a)
       THEN IF net # current_net
            THEN AbbrevList(Tail(addrs), net, line \o <<32>> \o net \o <<47>> \o node)
            ELSE AbbrevList(Tail(addrs), current_net, line \o <<32>> \o node)
       ELSE AbbrevList(Tail(addrs), current_net, line \o <<32>> \o a)

\* [Gateway] version, [FidoNet] origin_line and gateway_address of the
\* configuration: '1.5', 'PyGate', '1:1/1'.
ConfigVersion == <<49, 46, 53>>
ConfigOriginLine == <<80, 121, 71, 97, 116, 101>>
ConfigGatewayAddress == <<49, 58, 49, 47, 49>>

\* generate_tearline on Linux
GenerateTearline == <<80, 121, 71, 97, 116, 101, 32, 76, 105, 110, 117, 120, 32, 118>> \o ConfigVersion

\* get_our_origin
GetOurOrigin == ConfigOriginLine \o <<32, 40>> \o ConfigGatewayAddress \o <<41>>

\* The INTL kludge of a netmail message.
IntlLine(m) ==
    <<1>> \o <<73, 78, 84, 76, 32>> \o Dec(Get(m, "dest_zone", 0)) \o <<58>> \o Dec(Get(m, "dest_net", 0))
    \o <<47>> \o Dec(Get(m, "dest_node", 0)) \o <<32>> \o Dec(Get(m, "orig_zone", 0))
    \o <<58>> \o Dec(Get(m, "orig_net", 0)) \o <<47>> \o Dec(Get(m, "orig_node", 0))

\* One optional kludge line of write_message.
KludgeLine(m, key, prefix) ==
    IF Truthy(m, key) THEN <<<<1>> \o prefix \o m[key]>> ELSE <<>>

\* The echomail trailer of write_message: blank line, tear line, origin line,
\* SEEN-BY, PATH.
Trailer(m) ==
    LET tear == Get(m, "tearline", GenerateTearline)
        tear_line == IF StartsWith(tear, Lit.TEAR) THEN tear ELSE Lit.TEAR \o <<32>> \o tear
        seen_by == Get(m, "seen_by", <<>>)
        path == Get(m, "path", <<>>)
    IN <<<<>>, tear_line, Lit.ORIGIN \o <<32>> \o Get(m, "origin", GetOurOrigin)>>
       \o (IF seen_by # <<>> THEN <<AbbrevList(seen_by, NoNet, Lit.SEENBY)>> ELSE <<>>)
       \o (IF path # <<>> THEN <<AbbrevList(path, NoNet, <<1>> \o <<80, 65, 84, 72, 58>>)>> ELSE <<>>)

\* text_lines of write_message.
TextLines(m) ==
    (IF Truthy(m, "area") THEN <<Lit.AREA \o m.area>> ELSE <<IntlLine(m)>>)
    \o KludgeLine(m, "msgid", Lit.MSGID \o <<32>>)
    \o KludgeLine(m, "reply", Lit.REPLY \o <<32>>)
    \o KludgeLine(m, "pid", Lit.PID \o <<32>>)
    \o KludgeLine(m, "tid", Lit.TID \o <<32>>)
    \o KludgeLine(m, "chrs", Lit.CHRS \o <<32>>)
    \o KludgeLine(m, "tzutc", Lit.TZUTC \o <<32>>)
    \o KludgeLine(m, "replyaddr", <<82, 69, 80, 76, 89, 65, 68, 68, 82, 32>>)
    \o KludgeLine(m, "replyto", <<82, 69, 80, 76, 89, 84, 79, 32>>)
    \o (IF Truthy(m, "text") THEN <<CleanText(m.text)>> ELSE <<>>)
    \o (IF Truthy(m, "area") THEN Trailer(m) ELSE <<>>)

\* struct.pack('<HHHHHH', ...) of write_message raises struct.error for a
\* field outside 0..65535.
Packable(m) ==
    \A k \in {"orig_node", "dest_node", "orig_net", "dest_net", "attr"} :
        m[k] \in 0..65535

\* write_message as its f.write calls, in order: version word, message
\* record, date, to, from, subject, text.  raised: struct.pack raised, after
\* the version word was written.
MessageWrites(m) ==
    IF ~Packable(m) THEN [raised |-> TRUE, writes |-> <<Pack16(2)>>]
    ELSE [raised |-> FALSE,
          writes |->
            <<Pack16(2),
              Pack16(m.orig_node) \o Pack16(m.dest_node) \o Pack16(m.orig_net)
                \o Pack16(m.dest_net) \o Pack16(m.attr) \o Pack16(0),
              DateField(m.datetime),
              NameField(m.to_name, NAME_MAX),
              NameField(m.from_name, NAME_MAX),
              NameField(m.subject, SUBJECT_MAX),
              EncodeCp437(Join(TextLines(m), <<CR>>)) \o <<NUL>> >>]

\* write_message: the bytes written to the file, and whether the call raised.
WriteMessage(m) ==
    LET w == MessageWrites(m) IN [raised |-> w.raised, bytes |-> Flatten(w.writes)]

\* [FidoNet] packet_password.encode('ascii')[:8].ljust(8, b'\x00')
PasswordField(password) ==
    LET cut == SubSeq(password, 1, IF Len(password) < 8 THEN Len(password) ELSE 8)
    IN cut \o [i \in 1..(8 - Len(cut)) |-> 0]

\* write_packet_header: the 58 bytes of the type 2+ header.
WritePacketHeader(our, dest, now, password) ==
    Pack16(our.node) \o Pack16(dest.node) \o Pack16(now.year) \o Pack16(now.month - 1)
    \o Pack16(now.day) \o Pack16(now.hour) \o Pack16(now.minute) \o Pack16(now.second)
    \o Pack16(0) \o Pack16(2) \o Pack16(our.net) \o Pack16(dest.net) \o <<0, 0>>
    \o PasswordField(password)
    \o Pack16(our.zone) \o Pack16(dest.zone) \o Pack16(0) \o Pack16(256) \o <<1, 0>>
    \o Pack16(1) \o Pack16(our.zone) \o Pack16(dest.zone) \o Pack16(0) \o Pack16(0)
    \o <<0, 0, 0, 0>>

RECURSIVE WriteMessages(_, _)
\* The loop of create_packet_file over the messages: it stops at the first
\* write_message that raises.
WriteMessages(messages, out) ==
    IF messages = <<>> THEN [raised |-> FALSE, bytes |-> out]
    ELSE LET w == WriteMessage(Head(messages))
         IN IF w.raised THEN [raised |-> TRUE, bytes |-> out \o w.bytes]
            ELSE WriteMessages(Tail(messages), out \o w.bytes)

\* The bytes create_packet_file writes for a non-empty list of messages:
\* header, messages, end-of-packet marker.
PacketBytes(messages, our, dest, now, password) ==
    LET w == WriteMessages(messages, WritePacketHeader(our, dest, now, password))
    IN IF w.raised THEN w ELSE [raised |-> FALSE, bytes |-> w.bytes \o <<0, 0>>]

\* --------------------------------------------------------------- inputs

\* An inbound message as another FidoNet system writes it (FTS-0001): version
\* word 2, the 12-byte record, a 20-byte date field whose last byte is a
\* null, to, from and subject null terminated, the text null terminated.
InboundMessage(m) ==
    Pack16(2) \o Pack16(m.orig_node) \o Pack16(m.dest_node) \o Pack16(m.orig_net)
    \o Pack16(m.dest_net) \o Pack16(m.attr) \o Pack16(0)
    \o m.date \o m.to_name \o <<NUL>> \o m.from_name \o <<NUL>>
    \o m.subject \o <<NUL>> \o m.text \o <<NUL>>

\* The packet header of an inbound packet from 1:1/2 to 1:1/1.
InboundHeader ==
    WritePacketHeader([zone |-> 1, net |-> 1, node |-> 2], [zone |-> 1, net |-> 1, node |-> 1],
                      [year |-> 2024, month |-> 3, day |-> 9, hour |-> 10, minute |-> 20,
                       second |-> 30], <<>>)

\* An inbound packet: header, messages, and what follows the last message.
InboundPacket(msgs, tail) ==
    InboundHeader \o Flatten([i \in 1..Len(msgs) |-> InboundMessage(msgs[i])]) \o tail

\* The end-of-packet marker, and a record whose version word is 3.
EndMarker == <<0, 0>>
BadRecord == <<3, 0>> \o [i \in 1..12 |-> 0] \o <<0, 0>>

\* '09 Mar 24  10:20:30' and a null: the 20-byte date field of FTS-0001.
InboundDate == <<48, 57, 32, 77, 97, 114, 32, 50, 52, 32, 32, 49, 48, 58, 50, 48, 58, 51, 48>> \o <<NUL>>

\* Inbound message with the given record fields and text.
InMsg(node, attr, text) ==
    [orig_node |-> node, dest_node |-> 1, orig_net |-> node, dest_net |-> 1,
     attr |-> attr, date |-> InboundDate, to_name |-> <<84>>, from_name |-> <<70>>,
     subject |-> <<83>>, text |-> text]

\* The bytes of the exhaustively enumerated texts: null, 2, CR, 'A'.
TextAlphabet == {NUL, 2, CR, 65}

\* Texts of the messages of packets with several messages: empty, 'A' CR,
\* 'A' with no CR, an embedded null, a blank line at the end, a kludge.
SampleTexts ==
    {<<>>, <<65, CR>>, <<65>>, <<65, NUL, 66, CR>>, <<65, CR, CR>>,
     <<1>> \o Lit.MSGID \o <<32, 120, CR, 66, CR>>}

RECURSIVE Tuples(_, _)
\* The sequences over S of length exactly n.
Tuples(S, n) ==
    IF n = 0 THEN {<<>>} ELSE {Append(t, x) : t \in Tuples(S, n - 1), x \in S}

\* Texts with an 'AREA:' line: 'AREA:T' first, after the body line 'A',
\* after a kludge, and 'AREA:T', 'B', 'AREA:U'.
AreaTexts ==
    {Lit.AREA \o <<84, CR, 65, CR>>,
     <<65, CR>> \o Lit.AREA \o <<84, CR>>,
     <<1>> \o Lit.MSGID \o <<32, 120, CR>> \o Lit.AREA \o <<84, CR, 66, CR>>,
     Lit.AREA \o <<84, CR, 66, CR>> \o Lit.AREA \o <<85, CR>>}

\* The message lists of the inbound packets: one message with any text over
\* TextAlphabet or with an AREA: text, or up to MaxMsgs messages with sample
\* texts.
InboundLists ==
    {<<InMsg(2, 0, t)>> : t \in SeqsUpTo(TextAlphabet, MaxText) \cup AreaTexts}
    \cup UNION {Tuples({InMsg(2, 0, t) : t \in SampleTexts}
                       \cup {InMsg(257, 257, <<65, CR>>)}, n) : n \in 0..MaxMsgs}

\* A datetime of the messages handed to the writer.
WriterDate ==
    [year |-> 2024, month |-> 3, day |-> 9, hour |-> 10, minute |-> 20, second |-> 30]

\* The fido_message dict create_message queues, with the given fields.
OutMsg(area, to_name, from_name, subject, text, msgid) ==
    [area |-> area, from_name |-> from_name, to_name |-> to_name, subject |-> subject,
     text |-> text, datetime |-> WriterDate, orig_node |-> 1, orig_net |-> 1,
     dest_node |-> 2, dest_net |-> 1, attr |-> 0, msgid |-> msgid, reply |-> <<>>,
     origin |-> GetOurOrigin, pid |-> <<>>, tid |-> <<>>, chrs |-> <<>>,
     tzutc |-> <<>>, replyaddr |-> <<>>, replyto |-> <<>>, tearline |-> <<>>,
     seen_by |-> <<>>, path |-> <<>>]

\* 'A', e-acute (cp437 has it), the euro sign (cp437 does not have it).
NameChars == {65, 233, 8364}

\* n times the code point c.
Rep(c, n) == [i \in 1..n |-> c]

Min(a, b) == IF a < b THEN a ELSE b

\* Messages whose names and subject reach and exceed the field limits.
LongMessages ==
    {OutMsg(<<>>, Rep(c, Min(n, NAME_MAX + MaxOver)), Rep(c, Min(n + 1, NAME_MAX + MaxOver)),
            Rep(c, n), <<65>>, <<>>) :
        c \in NameChars, n \in 0..(SUBJECT_MAX + MaxOver)}

\* Messages with no embedded null and no oversized field: netmail and
\* echomail, texts with and without a blank line, with and without a MSGID.
PlainMessages ==
    {OutMsg(area, <<84, 111>>, <<70, 114>>, <<83, 117>>, text, msgid) :
        area \in {<<>>, <<84, 69, 83, 84>>},
        text \in {<<>>, <<65>>, <<65, LF, 66>>, <<65, LF, LF, 66>>},
        msgid \in {<<>>, <<49, 58, 49, 47, 49, 32, 48, 48, 48, 48, 97, 98, 99, 100>>}}

\* The message lists handed to create_packet_file.
WriterLists ==
    {<<m>> : m \in LongMessages \cup PlainMessages}
    \cup UNION {Tuples({OutMsg(<<>>, <<84>>, <<70>>, <<83>>, <<65>>, <<>>),
                        OutMsg(<<84, 69, 83, 84>>, <<84>>, <<70>>, <<83>>, <<66, LF, 67>>, <<49, 58, 49, 47, 49, 32, 48, 48, 48, 48, 97, 98, 99, 100>>)}, n) :
                n \in 2..MaxMsgs}

\* ----------------------------------------------------------- packet files

VARIABLES
    file,      \* the bytes of the packet file
    origin,    \* where the file came from
    parsed,    \* the result of parse_packet on the file
    repaired,  \* the result of repair_packet on the file
    writes     \* the f.write calls of write_message, per message written

codecVars == <<file, origin, parsed, repaired, writes>>

NoFile == [kind |-> "none", msgs |-> <<>>, tail |-> <<>>, cut |-> FALSE]
NotParsed == [outcome |-> "not_run"]
NotRepaired == [outcome |-> "not_run"]

CodecInit ==
    /\ file = <<>>
    /\ origin = NoFile
    /\ parsed = NotParsed
    /\ repaired = NotRepaired
    /\ writes = <<>>

\* Another system's packet arrives in the inbound directory.
Receive ==
    /\ origin.kind = "none"
    /\ \E msgs \in InboundLists, tail \in {EndMarker, BadRecord} :
        /\ file' = InboundPacket(msgs, tail)
        /\ origin' = [kind |-> "inbound", msgs |-> msgs, tail |-> tail, cut |-> FALSE]
    /\ UNCHANGED <<parsed, repaired, writes>>

\* create_packet_file writes a packet from queued messages.
CreatePacketFile ==
    /\ origin.kind = "none"
    /\ \E messages \in WriterLists :
        /\ file' = PacketBytes(messages, [zone |-> 1, net |-> 1, node |-> 1],
                               [zone |-> 1, net |-> 1, node |-> 2], WriterDate, <<>>).bytes
        /\ origin' = [kind |-> "created", msgs |-> messages, tail |-> EndMarker, cut |-> FALSE]
        /\ writes' = [i \in 1..Len(messages) |-> MessageWrites(messages[i]).writes]
    /\ UNCHANGED <<parsed, repaired>>

\* A packet with several messages is seen partly written: only its first n
\* bytes are in the file.
TruncateFile ==
    /\ origin.kind # "none"
    /\ ~origin.cut
    /\ origin.tail = EndMarker
    /\ Len(origin.msgs) # 1
    /\ parsed = NotParsed
    /\ repaired = NotRepaired
    /\ \E n \in 0..(Len(file) - 1) : file' = SubSeq(file, 1, n)
    /\ origin' = [origin EXCEPT !.cut = TRUE]
    /\ UNCHANGED <<parsed, repaired, writes>>

\* parse_packet on the file.
ParseFile ==
    /\ origin.kind # "none"
    /\ parsed = NotParsed
    /\ repaired = NotRepaired
    /\ parsed' = ParsePacket(file)
    /\ UNCHANGED <<file, origin, repaired, writes>>

\* repair_packet on the file.
RepairFile ==
    /\ origin.kind = "inbound"
    /\ parsed = NotParsed
    /\ repaired = NotRepaired
    /\ repaired' = LET r == RepairPacket(file)
                   IN [outcome |-> IF r.raised THEN "raised" ELSE "returned", data |-> r.data]
    /\ UNCHANGED <<file, origin, parsed, writes>>

\* ----------------------------------------------------------- import run

VARIABLES
    packets,        \* file name -> the packet file of that name
    inbound_dir,    \* names of the *.pkt files in the inbound directory
    processed_dir,  \* names of the files renamed into inbound/processed
    bad_dir,        \* names of the files renamed into inbound/bad
    run,            \* position of import_packets
    handled,        \* file name -> what the run did with each parsed message
    executed        \* file name -> how many times process_areafix_message was
                    \* called on each message parsed from the file

importVars == <<packets, inbound_dir, processed_dir, bad_dir, run, handled, executed>>

\* The inbound directory holds at most MaxInbound packet files.
MaxInbound == 2
PacketNames == 1..MaxInbound

\* str.upper() on ASCII letters.
Upper(s) == [i \in 1..Len(s) |-> IF s[i] \in 97..122 THEN s[i] - 32 ELSE s[i]]

\* [FidoNet] areafix_password of the configuration: 'pw'.
ConfigAreafixPassword == <<112, 119>>

\* is_areafix_message: addressed to AREAFIX or AREAMGR, and the stripped
\* subject is the configured password.
IsAreafixMessage(message) ==
    /\ Upper(message.to_name) \in {<<65, 82, 69, 65, 70, 73, 88>>, <<65, 82, 69, 65, 77, 71, 82>>}
    /\ ConfigAreafixPassword # <<>>
    /\ Strip(message.subject) = ConfigAreafixPassword

\* An areafix request 'AreaFix' / 'pw', and an echomail message.
AreafixRequest ==
    [InMsg(2, 0, <<37, 76, 73, 83, 84, CR>>) EXCEPT
        !.to_name = <<65, 114, 101, 97, 70, 105, 120>>, !.subject = ConfigAreafixPassword]
EchoMessage == InMsg(2, 0, Lit.AREA \o <<84, CR, 65, CR>>)

\* A packet of two messages, and the lengths at which a partly written copy
\* of it is seen: inside the packet header, inside the first record, right
\* after the CR that ends the first line of the first text, inside the
\* date of the second message, before the end marker, inside the end marker.
TwoMessages == <<EchoMessage, InMsg(257, 257, <<65, CR>>)>>
CutPoints ==
    LET first == Len(InboundMessage(EchoMessage))
        whole == Len(InboundPacket(TwoMessages, EndMarker))
    IN {PKT_HEADER_LEN - 1, PKT_HEADER_LEN + 7, PKT_HEADER_LEN + first - 3,
        PKT_HEADER_LEN + first + MSG_HEADER_LEN + 5, whole - 2, whole - 1}

\* A packet whose messages are each followed by one more null, the form in
\* which parse_packet returns every message of a packet of several: the
\* lookahead of the body loop consumes that null and the next record is read
\* from its version word.
Padded == <<EchoMessage, AreafixRequest>>
PaddedPacket(msgs) ==
    InboundHeader
    \o Flatten([i \in 1..Len(msgs) |->
                   InboundMessage(msgs[i]) \o (IF i < Len(msgs) THEN <<NUL>> ELSE <<>>)])
    \o EndMarker

\* The packet files that arrive in the inbound directory.
ImportPackets ==
    {[data |-> InboundPacket(msgs, tail), msgs |-> msgs, tail |-> tail, cut |-> FALSE] :
        msgs \in {<<EchoMessage>>, <<AreafixRequest>>}, tail \in {EndMarker, BadRecord}}
    \cup {[data |-> SubSeq(InboundPacket(TwoMessages, EndMarker), 1, n),
           msgs |-> TwoMessages, tail |-> EndMarker, cut |-> TRUE] : n \in CutPoints}
    \cup {[data |-> PaddedPacket(Padded), msgs |-> Padded, tail |-> EndMarker, cut |-> FALSE]}

NoPacket == [data |-> <<>>, msgs |-> <<>>, tail |-> <<>>, cut |-> FALSE]
Idle == [pc |-> "idle", todo |-> {}, packets_processed |-> 0]

ImportInit ==
    /\ packets = [n \in PacketNames |-> NoPacket]
    /\ inbound_dir = {}
    /\ processed_dir = {}
    /\ bad_dir = {}
    /\ run = Idle
    /\ handled = [n \in PacketNames |-> <<>>]
    /\ executed = [n \in PacketNames |-> [i \in 1..MaxMsgs |-> 0]]

\* Another system's mailer drops a packet file into the inbound directory.
Deliver ==
    \E n \in PacketNames, p \in ImportPackets :
        /\ n \notin inbound_dir \cup processed_dir \cup bad_dir
        /\ packets' = [packets EXCEPT ![n] = p]
        /\ inbound_dir' = inbound_dir \cup {n}
        /\ UNCHANGED <<processed_dir, bad_dir, run, handled, executed>>

\* import_packets starts: Path(inbound_dir).glob("*.pkt") lists the files.
StartImport ==
    /\ run.pc \in {"idle", "done"}
    /\ inbound_dir # {}
    /\ run' = [pc |-> "running", todo |-> inbound_dir, packets_processed |-> 0]
    /\ UNCHANGED <<packets, inbound_dir, processed_dir, bad_dir, handled, executed>>

\* What the loop over the parsed messages does with one message: an areafix
\* request is processed; any other message is filtered as spam or held for
\* review (both counted as filtered), or posted; any of the calls may raise.
\* post_message returns True after a 240 answer ("gated") and False
\* otherwise, all counted as failed: no connection or no newsgroup
\* ("failed"), a 4xx answer ("failed_4xx"), a 5xx answer ("failed_5xx").
PostOutcomes == {"gated", "failed", "failed_4xx", "failed_5xx"}
DispositionsOf(message) ==
    IF IsAreafixMessage(message) THEN {"areafix", "raised"}
    ELSE {"filtered", "held", "raised"} \cup PostOutcomes

\* The runs of the message loop over messages: it ends at the first call
\* that raises.
Dispositions(messages) ==
    {ds \in UNION {[1..k -> {"areafix", "filtered", "held", "raised"} \cup PostOutcomes] :
                      k \in 0..Len(messages)} :
        /\ \A i \in 1..Len(ds) : ds[i] \in DispositionsOf(messages[i])
        /\ \A i \in 1..(Len(ds) - 1) : ds[i] # "raised"
        /\ Len(ds) < Len(messages) => (Len(ds) > 0 /\ ds[Len(ds)] = "raised")}

Raised(ds) == Len(ds) > 0 /\ ds[Len(ds)] = "raised"

\* The calls of process_areafix_message counted: one more for every message
\* the loop passed to it.
Executed(counts, ds) ==
    [i \in 1..MaxMsgs |-> IF i <= Len(ds) /\ ds[i] = "areafix" THEN counts[i] + 1 ELSE counts[i]]

\* One iteration of the loop of import_packets on a file whose parse
\* returns: the messages are handled, then the file is renamed into
\* processed, or into bad when a call raised.
ImportPacket ==
    /\ run.pc = "running"
    /\ \E n \in run.todo :
        LET result == ParsePacket(packets[n].data)
        IN /\ result.outcome = "returned"
           /\ \E ds \in Dispositions(result.msgs) :
                /\ handled' = [handled EXCEPT ![n] = ds]
                /\ executed' = [executed EXCEPT ![n] = Executed(@, ds)]
                /\ inbound_dir' = inbound_dir \ {n}
                /\ IF Raised(ds)
                   THEN /\ bad_dir' = bad_dir \cup {n}
                        /\ processed_dir' = processed_dir
                        /\ run' = [run EXCEPT !.todo = @ \ {n}]
                   ELSE /\ processed_dir' = processed_dir \cup {n}
                        /\ bad_dir' = bad_dir
                        /\ run' = [run EXCEPT !.todo = @ \ {n},
                                              !.packets_processed = @ + 1]
    /\ UNCHANGED packets

\* One iteration on a file on which parse_packet never returns: the run
\* stays inside read_line.
ImportHangs ==
    /\ run.pc = "running"
    /\ \E n \in run.todo : ParsePacket(packets[n].data).outcome = "hang"
    /\ run' = [run EXCEPT !.pc = "hung"]
    /\ UNCHANGED <<packets, inbound_dir, processed_dir, bad_dir, handled, executed>>

\* The loop is over: import_packets returns True.
FinishImport ==
    /\ run.pc = "running"
    /\ run.todo = {}
    /\ run' = [run EXCEPT !.pc = "done"]
    /\ UNCHANGED <<packets, inbound_dir, processed_dir, bad_dir, handled, executed>>

\* process_areafix_only is run at most MaxAreafixRuns times over a file it
\* leaves in the inbound directory.
MaxAreafixRuns == 2

\* process_areafix_only starts: Path(inbound_dir).glob("*.pkt") lists the files.
StartAreafixOnly ==
    /\ run.pc \in {"idle", "done"}
    /\ inbound_dir # {}
    /\ \A n \in inbound_dir : \A i \in 1..MaxMsgs : executed[n][i] < MaxAreafixRuns
    /\ run' = [pc |-> "areafix", todo |-> inbound_dir, packets_processed |-> 0]
    /\ UNCHANGED <<packets, inbound_dir, processed_dir, bad_dir, handled, executed>>

\* What the loop of process_areafix_only does with one message: an areafix
\* request is processed, any other message is only counted; is_areafix_message
\* may raise.
AreafixDispositions(messages) ==
    {ds \in UNION {[1..k -> {"areafix", "other", "raised"}] : k \in 0..Len(messages)} :
        /\ \A i \in 1..Len(ds) :
              ds[i] \in (IF IsAreafixMessage(messages[i]) THEN {"areafix", "raised"}
                         ELSE {"other"})
        /\ \A i \in 1..(Len(ds) - 1) : ds[i] # "raised"
        /\ Len(ds) < Len(messages) => (Len(ds) > 0 /\ ds[Len(ds)] = "raised")}

\* One iteration of the loop of process_areafix_only on a file whose parse
\* returns: the areafix requests are processed; the file is renamed into
\* processed when it held no other message, into bad when a call raised, and
\* is left in the inbound directory otherwise.
AreafixPacket ==
    /\ run.pc = "areafix"
    /\ \E n \in run.todo :
        LET Handle(result) ==
              /\ result.outcome = "returned"
              /\ \E ds \in AreafixDispositions(result.msgs) :
                   /\ executed' = [executed EXCEPT ![n] = Executed(@, ds)]
                   /\ inbound_dir' = IF Raised(ds) \/ \A i \in 1..Len(ds) : ds[i] # "other"
                                     THEN inbound_dir \ {n} ELSE inbound_dir
                   /\ bad_dir' = IF Raised(ds) THEN bad_dir \cup {n} ELSE bad_dir
                   /\ processed_dir' = IF ~Raised(ds) /\ \A i \in 1..Len(ds) : ds[i] # "other"
                                       THEN processed_dir \cup {n} ELSE processed_dir
                   /\ run' = [run EXCEPT !.todo = @ \ {n},
                                         !.packets_processed = IF Raised(ds) THEN @ ELSE @ + 1]
        IN Handle(ParsePacket(packets[n].data))
    /\ UNCHANGED <<packets, handled>>

\* One iteration on a file on which parse_packet never returns.
AreafixHangs ==
    /\ run.pc = "areafix"
    /\ \E n \in run.todo : ParsePacket(packets[n].data).outcome = "hang"
    /\ run' = [run EXCEPT !.pc = "hung"]
    /\ UNCHANGED <<packets, inbound_dir, processed_dir, bad_dir, handled, executed>>

\* The loop is over: process_areafix_only returns True.
FinishAreafixOnly ==
    /\ run.pc = "areafix"
    /\ run.todo = {}
    /\ run' = [run EXCEPT !.pc = "done"]
    /\ UNCHANGED <<packets, inbound_dir, processed_dir, bad_dir, handled, executed>>

\* ---------------------------------------------------------- NNTP client

\* The command words of nntp_client.py: 'ARTICLE ', 'HEAD ', 'OVER ', 'XOVER ',
\* 'LIST', 'LIST ACTIVE ', 'GROUP ', 'POST', 'AUTHINFO USER ', 'AUTHINFO PASS '.
Cmd ==
    [ARTICLE |-> <<65, 82, 84, 73, 67, 76, 69, 32>>,
     HEAD |-> <<72, 69, 65, 68, 32>>,
     OVER |-> <<79, 86, 69, 82, 32>>,
     XOVER |-> <<88, 79, 86, 69, 82, 32>>,
     LIST |-> <<76, 73, 83, 84>>,
     LIST_ACTIVE |-> <<76, 73, 83, 84, 32, 65, 67, 84, 73, 86, 69, 32>>,
     GROUP |-> <<71, 82, 79, 85, 80, 32>>,
     POST |-> <<80, 79, 83, 84>>,
     AUTH_USER |-> <<65, 85, 84, 72, 73, 78, 70, 79, 32, 85, 83, 69, 82, 32>>,
     AUTH_PASS |-> <<65, 85, 84, 72, 73, 78, 70, 79, 32, 80, 65, 83, 83, 32>>]

\* The status lines of the server of the session, by code: '220 0 <a@b> article',
\* '211 3 1 3 g', '211 3 1' (a GROUP status with too few numbers),
\* '211 42 1 50 test.group', '430 no such article', and so on.
Status ==
    [r220 |-> <<50, 50, 48, 32, 48, 32, 60, 97, 64, 98, 62, 32, 97, 114, 116, 105, 99, 108, 101>>,
     r221 |-> <<50, 50, 49, 32, 48, 32, 60, 97, 64, 98, 62, 32, 104, 101, 97, 100>>,
     r224 |-> <<50, 50, 52, 32, 111, 118, 101, 114, 118, 105, 101, 119>>,
     r215 |-> <<50, 49, 53, 32, 108, 105, 115, 116>>,
     r211 |-> <<50, 49, 49, 32, 51, 32, 49, 32, 51, 32, 103>>,
     r211_SHORT |-> <<50, 49, 49, 32, 51, 32, 49>>,
     r211_SPEC |-> <<50, 49, 49, 32, 52, 50, 32, 49, 32, 53, 48, 32, 116, 101, 115, 116, 46, 103,
                     114, 111, 117, 112>>,
     r340 |-> <<51, 52, 48, 32, 115, 101, 110, 100>>,
     r240 |-> <<50, 52, 48, 32, 111, 107>>,
     r281 |-> <<50, 56, 49, 32, 111, 107>>,
     r381 |-> <<51, 56, 49, 32, 109, 111, 114, 101>>,
     r430 |-> <<52, 51, 48, 32, 110, 111, 32, 115, 117, 99, 104, 32, 97, 114, 116, 105, 99, 108, 101>>,
     r411 |-> <<52, 49, 49, 32, 110, 111, 32, 115, 117, 99, 104, 32, 103, 114, 111, 117, 112>>,
     r440 |-> <<52, 52, 48, 32, 110, 111, 32, 112, 111, 115, 116, 105, 110, 103>>,
     r441 |-> <<52, 52, 49, 32, 114, 101, 106, 101, 99, 116, 101, 100>>,
     r481 |-> <<52, 56, 49, 32, 102, 97, 105, 108, 101, 100>>,
     r500 |-> <<53, 48, 48, 32, 117, 110, 107, 110, 111, 119, 110, 32, 99, 111, 109, 109, 97, 110, 100>>,
     r502 |-> <<53, 48, 50, 32, 100, 101, 110, 105, 101, 100>>]

\* The lines and arguments of the session: the response lines 'a', '..', '..b',
\* an overview line of 8 tab separated parts, the LIST line 'g 3 1 y'; the
\* articles 'S: x\n\nb' and 'S: x\n\n.\n.b'; user 'u', password 'p', the groups
\* 'g' and 'test.group', article '1', range '1-2'.
Sample ==
    [TEXT |-> <<97>>,
     DOTDOT |-> <<46, 46>>,
     DOTB |-> <<46, 46, 98>>,
     OVERVIEW |-> <<49, 9, 83, 9, 70, 9, 68, 9, 60, 109, 62, 9, 9, 49, 48, 9, 50>>,
     ACTIVE |-> <<103, 32, 51, 32, 49, 32, 121>>,
     PLAIN |-> <<83, 58, 32, 120, 10, 10, 98>>,
     DOTS |-> <<83, 58, 32, 120, 10, 10, 46, 10, 46, 98>>,
     USER |-> <<117>>,
     PASS |-> <<112>>,
     GROUP |-> <<103>>,
     TESTGROUP |-> <<116, 101, 115, 116, 46, 103, 114, 111, 117, 112>>,
     SPEC |-> <<49>>,
     RANGE |-> <<49, 45, 50>>]

\* A multi-line response of the server carries at most MaxBody lines.
MaxBody == 2

DOT == 46
TAB == 9
CRLF == <<CR, LF>>

\* bytes.decode('utf-8', errors='replace') on the bytes of the session: an
\* ASCII byte is its code point, a byte that starts no valid sequence is
\* U+FFFD.
DecodeLine(bytes) == [i \in 1..Len(bytes) |-> IF bytes[i] < 128 THEN bytes[i] ELSE 65533]

\* _putline: the line and CRLF.
PutLine(line) == line \o CRLF

\* The line without its trailing CRLF, or else without its trailing LF.
StripEol(line) ==
    IF Len(line) >= 2 /\ SubSeq(line, Len(line) - 1, Len(line)) = CRLF
    THEN SubSeq(line, 1, Len(line) - 2)
    ELSE IF Len(line) >= 1 /\ line[Len(line)] = LF
         THEN SubSeq(line, 1, Len(line) - 1)
         ELSE line

\* str.isdigit() on ASCII text, and int() of a string of digits.
IsDigits(str) == str # <<>> /\ \A i \in 1..Len(str) : str[i] \in 48..57

RECURSIVE ToInt(_)
ToInt(str) ==
    IF str = <<>> THEN 0
    ELSE ToInt(SubSeq(str, 1, Len(str) - 1)) * 10 + (str[Len(str)] - 48)

RECURSIVE SplitOn(_, _)
\* str.split(sep) for a one-character separator.
SplitOn(str, sep) ==
    LET k == Scan(str, 0, {sep})
    IN IF k >= Len(str) THEN <<str>>
       ELSE <<SubSeq(str, 1, k)>> \o SplitOn(SubSeq(str, k + 2, Len(str)), sep)

\* str.split(): the runs of non-whitespace characters.
SplitWs(str) == SelectSeq(SplitOn([i \in 1..Len(str) |->
                                     IF str[i] \in WhiteSpace THEN 32 ELSE str[i]], 32),
                          LAMBDA part : part # <<>>)

\* _getline and _getresp on a line read from the server: the code is
\* int(resp[:3]), the message is resp[4:].
GetResp(raw) ==
    LET resp == DecodeLine(StripEol(raw))
        digits == SubSeq(resp, 1, Min(3, Len(resp)))
    IN IF IsDigits(digits)
       THEN [ok |-> TRUE, code |-> ToInt(digits),
             message |-> IF Len(resp) > 3 THEN SubSeq(resp, 5, Len(resp)) ELSE <<>>]
       ELSE [ok |-> FALSE, code |-> 0, message |-> resp]

\* _check_resp: the exception it raises, or "ok".
CheckResp(code, expected_codes) ==
    IF code >= 500 THEN "NNTPPermanentError"
    ELSE IF code >= 400 THEN "NNTPTemporaryError"
    ELSE IF expected_codes # {} /\ code \notin expected_codes THEN "NNTPReplyError"
    ELSE "ok"

\* A loop that keeps the two dots of a stuffed line.
LongLineKeepsDots(raw) ==
    [end |-> raw \in {<<DOT>> \o CRLF, <<DOT, LF>>},
     line |-> StripEol(raw)]

\* One line of the loop of _getlongresp: the terminating line, or the line
\* with one leading dot of two removed and without its line end.
LongLine(raw) ==
    [end |-> raw \in {<<DOT>> \o CRLF, <<DOT, LF>>},
     line |-> StripEol(IF StartsWith(raw, <<DOT, DOT>>) THEN Tail(raw) ELSE raw)]

\* An article sent without the terminating line.
PostLinesUnterminated(data) ==
    LET lines == SplitOn(data, LF)
    IN [i \in 1..Len(lines) |->
           (IF StartsWith(lines[i], <<DOT>>) THEN <<DOT>> \o lines[i] ELSE lines[i]) \o CRLF]

\* The lines post sends for the article data: data.split(b'\n'), a line that
\* starts with a dot gets one more, each with CRLF, then the terminating line.
PostLines(data) ==
    LET lines == SplitOn(data, LF)
    IN [i \in 1..Len(lines) |->
           (IF StartsWith(lines[i], <<DOT>>) THEN <<DOT>> \o lines[i] ELSE lines[i]) \o CRLF]
       \o <<<<DOT>> \o CRLF>>

\* The overview tuples of over and xover: a line with at least 8 tab
\* separated parts whose first part is a number gives a tuple, any other
\* line is skipped.
ParseOverview(lines) ==
    LET parts(i) == SplitOn(DecodeLine(lines[i]), TAB)
        number(str) == IF IsDigits(str) THEN ToInt(str) ELSE 0
        kept == SelectSeq([i \in 1..Len(lines) |-> parts(i)],
                          LAMBDA p : Len(p) >= 8 /\ IsDigits(p[1]))
    IN [i \in 1..Len(kept) |->
           <<ToInt(kept[i][1]), kept[i][2], kept[i][3], kept[i][4], kept[i][5], kept[i][6],
             number(kept[i][7]), number(kept[i][8])>>]

\* The group tuples of list: a line with at least 4 parts whose second and
\* third parts are numbers gives a tuple, any other line is skipped.
ParseList(lines) ==
    LET kept == SelectSeq([i \in 1..Len(lines) |-> SplitWs(DecodeLine(lines[i]))],
                          LAMBDA p : Len(p) >= 4 /\ IsDigits(p[2]) /\ IsDigits(p[3]))
    IN [i \in 1..Len(kept) |-> <<kept[i][1], ToInt(kept[i][2]), ToInt(kept[i][3]), kept[i][4]>>]

\* The numbers of a 211 response read as count, last, first.
ParseGroupSwapped(message) ==
    LET parts == SplitWs(message)
    IN IF Len(parts) < 4 \/ ~(IsDigits(parts[1]) /\ IsDigits(parts[2]) /\ IsDigits(parts[3]))
       THEN [ok |-> FALSE, value |-> <<>>]
       ELSE [ok |-> TRUE,
             value |-> <<ToInt(parts[1]), ToInt(parts[3]), ToInt(parts[2]), parts[4]>>]

\* group on the message of a 211 response: count, first, last and name, or
\* the NNTPDataError.
ParseGroup(message) ==
    LET parts == SplitWs(message)
    IN IF Len(parts) < 4 \/ ~(IsDigits(parts[1]) /\ IsDigits(parts[2]) /\ IsDigits(parts[3]))
       THEN [ok |-> FALSE, value |-> <<>>]
       ELSE [ok |-> TRUE,
             value |-> <<ToInt(parts[1]), ToInt(parts[2]), ToInt(parts[3]), parts[4]>>]

\* The literals of build_nntp_article: 'From: ', 'Newsgroups: ', 'Subject: ',
\* 'X-Gateway: PyGate FidoNet-NNTP Gateway', '\n\n * Origin: ', and the
\* gate_email of the configuration of the session, 'gate@example.org'.
Hdr ==
    [FROM |-> <<70, 114, 111, 109, 58, 32>>,
     NEWSGROUPS |-> <<78, 101, 119, 115, 103, 114, 111, 117, 112, 115, 58, 32>>,
     SUBJECT |-> <<83, 117, 98, 106, 101, 99, 116, 58, 32>>,
     XGATEWAY |-> <<88, 45, 71, 97, 116, 101, 119, 97, 121, 58, 32, 80, 121, 71, 97, 116, 101, 32,
                    70, 105, 100, 111, 78, 101, 116, 45, 78, 78, 84, 80, 32, 71, 97, 116, 101,
                    119, 97, 121>>,
     ORIGIN |-> <<10, 10, 32, 42, 32, 79, 114, 105, 103, 105, 110, 58, 32>>,
     GATE_EMAIL |-> <<103, 97, 116, 101, 64, 101, 120, 97, 109, 112, 108, 101, 46, 111, 114, 103>>]

\* str.encode('utf-8') of code points below 65536.
EncodeUtf8(str) ==
    Flatten([i \in 1..Len(str) |->
        IF str[i] < 128 THEN <<str[i]>>
        ELSE IF str[i] < 2048 THEN <<192 + (str[i] \div 64), 128 + (str[i] % 64)>>
        ELSE <<224 + (str[i] \div 4096), 128 + ((str[i] \div 64) % 64), 128 + (str[i] % 64)>>])

\* The body build_nntp_article gates: the text of the message (a message of
\* the session has none of the fallback keys) and the origin line, if any.
GatedBody(message) ==
    IF message.origin # <<>> THEN message.text \o Hdr.ORIGIN \o message.origin
    ELSE message.text

\* One turn of the loop over the body lines of build_nntp_article.
StuffLine(line) ==
    LET stripped == RStrip(line)
    IN IF StartsWith(stripped, <<DOT>>)
       THEN IF stripped = <<DOT>> THEN <<DOT, DOT>> ELSE <<DOT>> \o stripped
       ELSE stripped

\* build_nntp_article: header lines, the empty line, the body lines. Of the
\* header lines, which all start with the name of a header, the From,
\* Newsgroups, Subject and X-Gateway lines are kept; the Date, Organization,
\* Sender, Message-ID, References, X-FidoNet-Area and X-FTN lines depend on
\* the clock and the configuration and are left out.
BuildNntpArticle(message, newsgroup) ==
    LET body_lines == SplitOn(GatedBody(message), LF)
    IN <<Hdr.FROM \o message.from_name \o <<32, 60>> \o Hdr.GATE_EMAIL \o <<62>>,
         Hdr.NEWSGROUPS \o newsgroup,
         Hdr.SUBJECT \o message.subject,
         Hdr.XGATEWAY,
         <<>>>> \o [i \in 1..Len(body_lines) |-> StuffLine(body_lines[i])]

\* post_message: the article text handed to post.
ArticleText(message, newsgroup) ==
    EncodeUtf8(Join(BuildNntpArticle(message, newsgroup), <<LF>>))

\* The body lines of the messages gated in the session: 'a', '.', '.b', '. '.
GatedLines == {<<97>>, <<DOT>>, <<DOT, 98>>, <<DOT, 32>>}

\* The FidoNet messages gated in the session, with and without origin 'O'.
GatedMessages ==
    {[from_name |-> <<65>>, subject |-> <<83>>, text |-> Join(ls, <<LF>>), origin |-> o] :
        ls \in SeqsUpTo(GatedLines, MaxBody), o \in {<<>>, <<79>>}}

\* What an NNTP server answers (RFC 3977): a status line, and after the
\* status of a successful multi-line command the lines and the terminating
\* line. An error status is a single line; a server that does not follow the
\* RFC there ends its refusal of OVER or XOVER with a terminating line.
Single(status) == <<status \o CRLF>>
Multi(status, body) ==
    <<status \o CRLF>> \o [i \in 1..Len(body) |-> body[i] \o CRLF] \o <<<<DOT>> \o CRLF>>

ArticleBodies == SeqsUpTo({Sample.TEXT, Sample.DOTDOT, Sample.DOTB}, MaxBody)
OverviewBodies == SeqsUpTo({Sample.OVERVIEW, Sample.TEXT}, MaxBody)
ActiveBodies == SeqsUpTo({Sample.ACTIVE, Sample.TEXT}, MaxBody)

\* The responses of the server to a command line.
ServerResponses(cmd) ==
    IF StartsWith(cmd, Cmd.ARTICLE)
    THEN {Multi(Status.r220, b) : b \in ArticleBodies} \cup {Single(Status.r430)}
    ELSE IF StartsWith(cmd, Cmd.HEAD)
    THEN {Multi(Status.r221, b) : b \in ArticleBodies} \cup {Single(Status.r430)}
    ELSE IF StartsWith(cmd, Cmd.OVER) \/ StartsWith(cmd, Cmd.XOVER)
    THEN {Multi(Status.r224, b) : b \in OverviewBodies}
             \cup {Single(Status.r500), Single(Status.r430), Multi(Status.r500, <<>>)}
    ELSE IF StartsWith(cmd, Cmd.LIST)
    THEN {Multi(Status.r215, b) : b \in ActiveBodies} \cup {Single(Status.r502)}
    ELSE IF StartsWith(cmd, Cmd.GROUP)
    THEN {Single(Status.r211), Single(Status.r211_SHORT), Single(Status.r211_SPEC),
          Single(Status.r411)}
    ELSE IF StartsWith(cmd, Cmd.POST)
    THEN {Single(Status.r340), Single(Status.r440)}
    ELSE IF StartsWith(cmd, Cmd.AUTH_USER)
    THEN {Single(Status.r281), Single(Status.r381), Single(Status.r481), Single(Status.r502)}
    ELSE IF StartsWith(cmd, Cmd.AUTH_PASS)
    THEN {Single(Status.r281), Single(Status.r481)}
    ELSE {Single(Status.r500)}

\* The responses of the server to the article sent after 340.
PostedResponses == {Single(Status.r240), Single(Status.r441)}

VARIABLES
    client,  \* the CustomNNTPClient and the position of the call in progress
    sent,    \* the lines the call in progress has sent to the server
    inbox    \* the lines the server has sent that the client has not read

nntpVars == <<client, sent, inbox>>

NoResp == [code |-> 0, message |-> <<>>]
NoResult == [kind |-> "none", error |-> "", value |-> <<>>]

NntpInit ==
    /\ client = [pc |-> "idle", op |-> "none", stage |-> "", data |-> <<>>, resp |-> NoResp,
                 lines |-> <<>>, result |-> NoResult, authenticated |-> FALSE]
    /\ sent = <<>>
    /\ inbox = <<>>

\* A method of the client is called and sends its command with _putcmd; the
\* server answers the command.
Begin(op, stage, cmd, pc, data) ==
    /\ client.pc = "idle"
    /\ client' = [client EXCEPT !.pc = pc, !.op = op, !.stage = stage, !.data = data,
                                !.resp = NoResp, !.lines = <<>>, !.result = NoResult]
    /\ sent' = <<PutLine(cmd)>>
    /\ \E r \in ServerResponses(cmd) : inbox' = inbox \o r

Login == Begin("login", "user", Cmd.AUTH_USER \o Sample.USER, "getresp", <<>>)
Group ==
    \E name \in {Sample.GROUP, Sample.TESTGROUP} :
        Begin("group", "", Cmd.GROUP \o name, "getresp", name)
Article == Begin("article", "", Cmd.ARTICLE \o Sample.SPEC, "getlongresp", <<>>)
\* head (Head is the operator of Sequences).
HeadCmd == Begin("head", "", Cmd.HEAD \o Sample.SPEC, "getlongresp", <<>>)
Post == \E data \in {Sample.PLAIN, Sample.DOTS} : Begin("post", "post", Cmd.POST, "getresp", data)
Over == Begin("over", "over", Cmd.OVER \o Sample.RANGE, "getlongresp", <<>>)
\* An overview call that starts with the legacy command.
XoverLegacyFirst == Begin("xover", "over", Cmd.XOVER \o Sample.RANGE, "getlongresp", <<>>)

\* xover starts as over does.
Xover == Begin("xover", "over", Cmd.OVER \o Sample.RANGE, "getlongresp", <<>>)

List ==
    \E group_pattern \in {<<>>, Sample.GROUP} :
        Begin("list", "", IF group_pattern # <<>> THEN Cmd.LIST_ACTIVE \o group_pattern
                          ELSE Cmd.LIST, "getlongresp", <<>>)

\* post_message: the article is built, the newsgroup is selected with group
\* and, after 211, the article is posted with post.
PostMessage ==
    \E message \in GatedMessages :
        Begin("post_message", "group", Cmd.GROUP \o Sample.GROUP, "getresp",
              ArticleText(message, Sample.GROUP))

\* The call in progress returns value, or raises error.
Returns(resp, value) ==
    client' = [client EXCEPT !.pc = "idle", !.resp = resp,
                             !.result = [kind |-> "returned", error |-> "", value |-> value]]
Raises(resp, error) ==
    client' = [client EXCEPT !.pc = "idle", !.resp = resp,
                             !.result = [kind |-> "raised", error |-> error, value |-> <<>>]]

\* _shortcmd's _getresp, and the _getresp that ends post, read the status
\* line; login, group, post and post_message go on from it.
ShortResp ==
    /\ client.pc = "getresp"
    /\ inbox # <<>>
    /\ LET r == GetResp(Head(inbox))
           resp == [code |-> r.code, message |-> r.message]
       IN IF ~r.ok
          THEN Raises(NoResp, "NNTPDataError") /\ inbox' = Tail(inbox) /\ UNCHANGED sent
          ELSE IF client.op = "login" /\ client.stage = "user"
          THEN IF r.code = 281
               THEN /\ client' = [client EXCEPT !.pc = "idle", !.resp = resp,
                                      !.authenticated = TRUE,
                                      !.result = [kind |-> "returned", error |-> "", value |-> <<>>]]
                    /\ inbox' = Tail(inbox) /\ UNCHANGED sent
               ELSE IF r.code = 381
               THEN /\ client' = [client EXCEPT !.stage = "pass", !.resp = resp]
                    /\ sent' = Append(sent, PutLine(Cmd.AUTH_PASS \o Sample.PASS))
                    /\ \E a \in ServerResponses(Cmd.AUTH_PASS \o Sample.PASS) :
                          inbox' = Tail(inbox) \o a
               ELSE Raises(resp, "NNTPReplyError") /\ inbox' = Tail(inbox) /\ UNCHANGED sent
          ELSE IF client.op = "login"
          THEN /\ IF r.code = 281
                  THEN client' = [client EXCEPT !.pc = "idle", !.resp = resp,
                                      !.authenticated = TRUE,
                                      !.result = [kind |-> "returned", error |-> "", value |-> <<>>]]
                  ELSE Raises(resp, "NNTPReplyError")
               /\ inbox' = Tail(inbox) /\ UNCHANGED sent
          ELSE IF client.stage = "group"
          THEN IF r.code # 211
               THEN Raises(resp, "NNTPReplyError") /\ inbox' = Tail(inbox) /\ UNCHANGED sent
               ELSE IF ~ParseGroup(r.message).ok
               THEN Raises(resp, "NNTPDataError") /\ inbox' = Tail(inbox) /\ UNCHANGED sent
               ELSE /\ client' = [client EXCEPT !.stage = "post", !.resp = resp]
                    /\ sent' = Append(sent, PutLine(Cmd.POST))
                    /\ \E a \in ServerResponses(Cmd.POST) : inbox' = Tail(inbox) \o a
          ELSE IF client.op = "group"
          THEN /\ IF r.code # 211 THEN Raises(resp, "NNTPReplyError")
                  ELSE IF ~ParseGroup(r.message).ok THEN Raises(resp, "NNTPDataError")
                  ELSE Returns(resp, ParseGroup(r.message).value)
               /\ inbox' = Tail(inbox) /\ UNCHANGED sent
          ELSE IF client.stage = "post"
          THEN IF r.code # 340
               THEN /\ Raises(resp, CheckResp(r.code, {340}))
                    /\ inbox' = Tail(inbox) /\ UNCHANGED sent
               ELSE /\ client' = [client EXCEPT !.stage = "data", !.resp = resp]
                    /\ sent' = sent \o PostLines(client.data)
                    /\ \E a \in PostedResponses : inbox' = Tail(inbox) \o a
          ELSE /\ IF r.code # 240 THEN Raises(resp, CheckResp(r.code, {240}))
                  ELSE Returns(resp, <<>>)
               /\ inbox' = Tail(inbox) /\ UNCHANGED sent

\* _getlongresp reads the status line with _getresp and enters its loop.
LongRespStatus ==
    /\ client.pc = "getlongresp"
    /\ inbox # <<>>
    /\ LET r == GetResp(Head(inbox))
       IN IF ~r.ok THEN Raises(NoResp, "NNTPDataError")
          ELSE client' = [client EXCEPT !.pc = "getlines", !.lines = <<>>,
                                        !.resp = [code |-> r.code, message |-> r.message]]
    /\ inbox' = Tail(inbox)
    /\ UNCHANGED sent

\* One turn of the loop of _getlongresp: a line is read; the terminating
\* line ends the loop and article, head, over, xover or list goes on with
\* the status and the lines, any other line is kept.
LongRespLine ==
    /\ client.pc = "getlines"
    /\ inbox # <<>>
    /\ LET l == LongLine(Head(inbox))
           resp == client.resp
           lines == client.lines
           expected == CASE client.op = "article" -> 220
                         [] client.op = "head" -> 221
                         [] client.op = "list" -> 215
                         [] OTHER -> 224
       IN IF ~l.end
          THEN /\ client' = [client EXCEPT !.lines = Append(@, l.line)]
               /\ inbox' = Tail(inbox) /\ UNCHANGED sent
          ELSE IF client.op \in {"article", "head"}
          THEN /\ IF resp.code # expected THEN Raises(resp, "NNTPReplyError")
                  ELSE Returns(resp, lines)
               /\ inbox' = Tail(inbox) /\ UNCHANGED sent
          ELSE IF client.op = "list"
          THEN /\ IF resp.code # expected THEN Raises(resp, CheckResp(resp.code, {expected}))
                  ELSE Returns(resp, ParseList(lines))
               /\ inbox' = Tail(inbox) /\ UNCHANGED sent
          ELSE IF resp.code = expected
          THEN /\ Returns(resp, ParseOverview(lines))
               /\ inbox' = Tail(inbox) /\ UNCHANGED sent
          ELSE IF /\ client.op = "xover" /\ client.stage = "over"
                  /\ CheckResp(resp.code, {expected}) \in {"NNTPPermanentError", "NNTPTemporaryError"}
          THEN /\ client' = [client EXCEPT !.pc = "getlongresp", !.stage = "xover"]
               /\ sent' = Append(sent, PutLine(Cmd.XOVER \o Sample.RANGE))
               /\ \E a \in ServerResponses(Cmd.XOVER \o Sample.RANGE) : inbox' = Tail(inbox) \o a
          ELSE /\ Raises(resp, CheckResp(resp.code, {expected}))
               /\ inbox' = Tail(inbox) /\ UNCHANGED sent

\* A read finds no line from the server until the socket timeout: readline
\* raises socket.timeout, which leaves the call.
ReadTimeout ==
    /\ client.pc \in {"getresp", "getlongresp", "getlines"}
    /\ inbox = <<>>
    /\ Raises(client.resp, "socket.timeout")
    /\ UNCHANGED <<sent, inbox>>

\* ------------------------------------------------- the article on the wire

\* Longest article data posted to the reading loop.
MaxData == 4

VARIABLES
    wire     \* the article data posted, the bytes of it not yet read by the
             \* loop of _getlongresp, and the lines the loop has collected

WireInit == wire = [pc |-> "idle", data |-> <<>>, stream |-> <<>>, lines |-> <<>>]

\* post sends the article data, over '.', 'a', LF and CR, and the terminating
\* line (the sendall calls after the 340); the peer is the loop of
\* _getlongresp.
WirePost ==
    /\ wire.pc \in {"idle", "done"}
    /\ \E data \in SeqsUpTo({DOT, 97, LF, CR}, MaxData) :
          wire' = [pc |-> "reading", data |-> data, stream |-> Flatten(PostLines(data)),
                   lines |-> <<>>]

\* One turn of the loop of _getlongresp: readline gives the bytes up to the
\* first LF; no bytes is the lost connection, the terminating line ends the
\* loop, any other line is collected.
WireReadLine ==
    /\ wire.pc = "reading"
    /\ LET n == Min(Scan(wire.stream, 0, {LF}) + 1, Len(wire.stream))
           line == SubSeq(wire.stream, 1, n)
           rest == SubSeq(wire.stream, n + 1, Len(wire.stream))
       IN IF line = <<>> THEN wire' = [wire EXCEPT !.pc = "lost"]
          ELSE IF LongLine(line).end THEN wire' = [wire EXCEPT !.pc = "done", !.stream = rest]
          ELSE wire' = [wire EXCEPT !.stream = rest, !.lines = Append(@, LongLine(line).line)]

\* ------------------------------------------------------------ identifiers

\* Most calls of the identifier functions in one behaviour, and most
\* Message-IDs in one References header.
MaxCalls == 2
MaxRefs == 2

\* The strings of the session: the Message-IDs '<a@x>' and '<b@y>', the bare
\* id 'a@x', the FidoNet MSGID '1:2/3 abcd'; what socket.getfqdn() gives,
\* 'localhost' or 'h.x'; two values of str(uuid.uuid4()).replace('-', '')[:16]
\* and one of f"{int(time.time()):08x}"; and the literals '@pygate.fidonet>'
\* and 'pygate.local' of nntp_module.py.
Ids ==
    [A |-> <<60, 97, 64, 120, 62>>,
     B |-> <<60, 98, 64, 121, 62>>,
     BARE |-> <<97, 64, 120>>,
     FIDO |-> <<49, 58, 50, 47, 51, 32, 97, 98, 99, 100>>,
     LOCALHOST |-> <<108, 111, 99, 97, 108, 104, 111, 115, 116>>,
     FQDN |-> <<104, 46, 120>>,
     UUID1 |-> <<48, 49, 50, 51, 52, 53, 54, 55, 56, 57, 97, 98, 99, 100, 101, 102>>,
     UUID2 |-> <<102, 101, 100, 99, 98, 97, 57, 56, 55, 54, 53, 52, 51, 50, 49, 48>>,
     NOW |-> <<53, 102, 53, 101, 49, 48, 48, 48>>,
     PYGATE |-> <<64, 112, 121, 103, 97, 116, 101, 46, 102, 105, 100, 111, 110, 101, 116, 62>>,
     FALLBACK |-> <<112, 121, 103, 97, 116, 101, 46, 108, 111, 99, 97, 108>>]

\* f"{binascii.crc32(bytes) & 0xffffffff:08x}": the CRC-32 of zlib (reflected
\* polynomial EDB88320, register and result inverted) as 8 lower case hex
\* digits, computed bit by bit, the lowest bit of a byte first. The register
\* is the set of its bits that are 1, bit 0 the lowest.
Crc32Hex(bytes) ==
    LET Poly == {31, 30, 29, 27, 26, 24, 23, 21, 20, 19, 15, 9, 8, 5}
        Shift(c) == {i - 1 : i \in c \ {0}}
        RECURSIVE Turn(_, _, _)
        Turn(c, byte, k) ==
            IF k = 8 THEN c
            ELSE IF (0 \in c) # ((byte \div (2 ^ k)) % 2 = 1)
            THEN Turn({i \in 0..31 : (i \in Shift(c)) # (i \in Poly)}, byte, k + 1)
            ELSE Turn(Shift(c), byte, k + 1)
        feed[c \in SUBSET (0..31), n \in 0..Len(bytes)] ==
            IF n = Len(bytes) THEN c ELSE feed[Turn(c, bytes[n + 1], 0), n + 1]
        crc == (0..31) \ feed[0..31, 0]
        bit(i) == IF i \in crc THEN 1 ELSE 0
        nibble(k) == bit(4 * k - 4) + 2 * bit(4 * k - 3) + 4 * bit(4 * k - 2) + 8 * bit(4 * k - 1)
    IN [k \in 1..8 |-> IF nibble(9 - k) < 10 THEN 48 + nibble(9 - k) ELSE 87 + nibble(9 - k)]

\* str.strip(chars)
StripChars(str, chars) ==
    LET keep == {i \in 1..Len(str) : str[i] \notin chars}
    IN IF keep = {} THEN <<>>
       ELSE SubSeq(str, CHOOSE i \in keep : \A j \in keep : i <= j,
                        CHOOSE i \in keep : \A j \in keep : i >= j)

\* str.replace(old, new) for one-character old and new.
Replace(str, old, new) == [i \in 1..Len(str) |-> IF str[i] = old THEN new ELSE str[i]]

\* generate_fido_msgid. Without an id the host name comes from
\* socket.getfqdn(), the token from uuid4 and the stamp from the clock; for
\* 'localhost' or a name without a dot the call
\* self.config.get('Gateway', 'domain', 'gateway.local') on the ConfigParser
\* of the gateway raises TypeError, in the try and again in its except.
GenerateFidoMsgid(nntp_message_id, hostname, unique_id, timestamp) ==
    LET anchored(message_id) ==
            [outcome |-> "returned",
             value |-> <<60>> \o message_id \o <<62, 32>> \o Crc32Hex(EncodeUtf8(message_id))]
    IN IF nntp_message_id # <<>>
       THEN anchored(StripChars(nntp_message_id, {60, 62}))
       ELSE IF hostname = Ids.LOCALHOST \/ \A i \in 1..Len(hostname) : hostname[i] # DOT
       THEN [outcome |-> "TypeError", value |-> <<>>]
       ELSE anchored(unique_id \o timestamp \o <<64>> \o hostname)

\* A REPLY made of the first reference.
GenerateFidoReplyFirst(references) ==
    LET refs == SplitWs(Strip(references))
        parent_msgid == StripChars(refs[1], {60, 62})
    IN IF references = <<>> \/ refs = <<>> THEN <<>>
       ELSE <<60>> \o parent_msgid \o <<62, 32>> \o Crc32Hex(EncodeUtf8(parent_msgid))

\* generate_fido_reply
GenerateFidoReply(references) ==
    LET refs == SplitWs(Strip(references))
        parent_msgid == StripChars(refs[Len(refs)], {60, 62})
    IN IF references = <<>> \/ refs = <<>> THEN <<>>
       ELSE <<60>> \o parent_msgid \o <<62, 32>> \o Crc32Hex(EncodeUtf8(parent_msgid))

\* get_message_id_domain: what follows the '@' of gate_email.
GetMessageIdDomain ==
    LET parts == SplitOn(Hdr.GATE_EMAIL, 64)
    IN IF Len(parts) > 1 THEN parts[2] ELSE Ids.FALLBACK

\* convert_fido_msgid; unique is str(uuid.uuid4()). No step of the try block
\* raises on a str, so the MD5 fallback of the except clause is never taken.
ConvertFidoMsgid(fido_msgid, unique) ==
    LET parts == SplitWs(Strip(fido_msgid))
        dotted(str) == Replace(Replace(str, 58, DOT), 47, DOT)
    IN IF StartsWith(fido_msgid, <<60>>) /\ fido_msgid[Len(fido_msgid)] = 62
       THEN fido_msgid
       ELSE IF Strip(fido_msgid) = <<>> THEN <<60>> \o unique \o Ids.PYGATE
       ELSE IF Len(parts) >= 2
       THEN <<60>> \o parts[2] \o <<DOT>> \o dotted(parts[1]) \o <<64>> \o GetMessageIdDomain \o <<62>>
       ELSE <<60>> \o Replace(dotted(fido_msgid), 32, DOT) \o <<64>> \o GetMessageIdDomain \o <<62>>

\* The References headers of the session: up to MaxRefs Message-IDs joined
\* by a space, and two headers with other white space.
ReferenceLists ==
    {Join(ids, <<32>>) : ids \in SeqsUpTo({Ids.A, Ids.B}, MaxRefs)}
        \cup {<<32>>, Ids.A \o <<9>> \o Ids.B \o <<32>>}

VARIABLES
    calls    \* the calls of the identifier functions made so far, each with
             \* its argument and what it gave

CallsInit == calls = <<>>

\* convert_nntp_to_fido computes the MSGID of an article from its Message-ID.
CallGenerateFidoMsgid ==
    /\ Len(calls) < MaxCalls
    /\ \E id \in {<<>>, Ids.A, Ids.B, Ids.BARE}, hostname \in {Ids.LOCALHOST, Ids.FQDN},
          unique_id \in {Ids.UUID1, Ids.UUID2} :
          LET got == GenerateFidoMsgid(id, hostname, unique_id, Ids.NOW)
          IN calls' = Append(calls, [fn |-> "generate_fido_msgid", arg |-> id,
                                     outcome |-> got.outcome, value |-> got.value])

\* convert_nntp_to_fido computes the REPLY of an article from its References.
CallGenerateFidoReply ==
    /\ Len(calls) < MaxCalls
    /\ \E references \in ReferenceLists :
          calls' = Append(calls, [fn |-> "generate_fido_reply", arg |-> references,
                                  outcome |-> "returned",
                                  value |-> GenerateFidoReply(references)])

\* build_nntp_article converts the MSGID of a FidoNet message: a MSGID of
\* FidoNet, an NNTP Message-ID, an empty one, or one that generate_fido_msgid
\* gave before.
CallConvertFidoMsgid ==
    /\ Len(calls) < MaxCalls
    /\ \E msgid \in {Ids.FIDO, Ids.A, Ids.BARE, <<32>>}
                      \cup {calls[i].value : i \in {j \in 1..Len(calls) :
                                calls[j].fn = "generate_fido_msgid"
                                    /\ calls[j].outcome = "returned"}},
          unique \in {Ids.UUID1, Ids.UUID2} :
          calls' = Append(calls, [fn |-> "convert_fido_msgid", arg |-> msgid,
                                  outcome |-> "returned",
                                  value |-> ConvertFidoMsgid(msgid, unique)])

\* ------------------------------------------------------------------ TZUTC

\* timezone() of Python takes offsets strictly between -24 h and +24 h.
MaxOffsetMinutes == 1439

\* A datetime: its wall-clock reading in seconds and its UTC offset in
\* seconds; a naive one has NoTz there, a number no timezone() can hold.
NoTz == 86400

\* The naive timestamp the offset is attached to.
NaiveDate == [wall |-> 0, utcoffset |-> NoTz]

\* int(str) for a str of digits, with the white space around it and the one
\* sign before it that int() accepts; IsPyInt is FALSE where int() raises
\* ValueError.
IsPyInt(s) ==
    LET t == Strip(s) IN IsDigits(IF t # <<>> /\ Head(t) \in {43, 45} THEN Tail(t) ELSE t)

PyInt(s) ==
    LET t == Strip(s)
    IN IF Head(t) = 45 THEN 0 - ToInt(Tail(t))
       ELSE IF Head(t) = 43 THEN ToInt(Tail(t)) ELSE ToInt(t)

\* generate_tzutc_offset without its branch for negative offsets: the hours
\* and minutes are the floor quotient and remainder of the signed seconds.
GenerateTzutcOffsetFloor(message_date, local) ==
    LET offset_seconds ==
            IF message_date.utcoffset = NoTz
            THEN IF local.daylight # 0 THEN 0 - local.altzone ELSE 0 - local.timezone
            ELSE message_date.utcoffset
        hours == offset_seconds \div 3600
        Pad2(n) == IF n < 10 THEN <<48>> \o Dec(n) ELSE Dec(n)
    IN (IF hours < 0 THEN <<45>> \o Pad2(0 - hours) ELSE Pad2(hours))
           \o Pad2((offset_seconds % 3600) \div 60)

\* Gateway.generate_tzutc_offset.  A naive date takes the offset of the local
\* zone: local is [daylight, timezone, altzone] of the time module.
GenerateTzutcOffset(message_date, local) ==
    LET offset_seconds ==
            IF message_date.utcoffset = NoTz
            THEN IF local.daylight # 0 THEN 0 - local.altzone ELSE 0 - local.timezone
            ELSE message_date.utcoffset
        abs_seconds == IF offset_seconds < 0 THEN 0 - offset_seconds ELSE offset_seconds
        Pad2(n) == IF n < 10 THEN <<48>> \o Dec(n) ELSE Dec(n)
        digits == Pad2(abs_seconds \div 3600) \o Pad2((abs_seconds % 3600) \div 60)
    IN IF offset_seconds < 0 THEN <<45>> \o digits ELSE digits

\* Gateway.parse_tzutc_offset.  A ValueError (of int() or of timezone()) is
\* caught and gives the date back unchanged.
ParseTzutcOffset(tzutc_str, message_date) ==
    IF Len(tzutc_str) < 4 THEN message_date
    ELSE LET sign == IF Head(tzutc_str) = 45 THEN -1 ELSE 1
             offset_str == IF Head(tzutc_str) \in {45, 43} THEN Tail(tzutc_str) ELSE tzutc_str
             hh == SubSeq(offset_str, 1, 2)
             mm == SubSeq(offset_str, 3, 4)
         IN IF Len(offset_str) < 4 THEN message_date
            ELSE IF ~IsPyInt(hh) \/ ~IsPyInt(mm) THEN message_date
            ELSE LET total_seconds == sign * (PyInt(hh) * 3600 + PyInt(mm) * 60)
                 IN IF total_seconds <= -86400 \/ total_seconds >= 86400 THEN message_date
                    ELSE IF message_date.utcoffset = NoTz
                    THEN [message_date EXCEPT !.utcoffset = total_seconds]
                    ELSE [wall |-> message_date.wall - message_date.utcoffset + total_seconds,
                          utcoffset |-> total_seconds]

VARIABLES
    tz       \* the date given to generate_tzutc_offset, the TZUTC string, and
             \* the date parse_tzutc_offset made of it

TzInit == tz = [pc |-> "idle", date |-> NaiveDate, tzutc |-> <<>>, parsed |-> NaiveDate]

\* convert_nntp_to_fido writes the TZUTC of an article's date: an aware date
\* of any whole-minute offset, or a naive one in one of three local zones.
CallGenerateTzutcOffset ==
    /\ tz.pc = "idle"
    /\ \E minutes \in (0 - MaxOffsetMinutes)..MaxOffsetMinutes, aware \in BOOLEAN,
          local \in {[daylight |-> 0, timezone |-> 0, altzone |-> 0],
                     [daylight |-> 1, timezone |-> 18000, altzone |-> 14400],
                     [daylight |-> 1, timezone |-> -36000, altzone |-> -39600]} :
          /\ ~aware => minutes = 0
          /\ LET date == [wall |-> 0, utcoffset |-> IF aware THEN 60 * minutes ELSE NoTz]
             IN tz' = [tz EXCEPT !.pc = "generated", !.date = date,
                                 !.tzutc = GenerateTzutcOffset(date, local)]

\* A TZUTC kludge written by another system arrives with a message.
ReceiveTzutc ==
    /\ tz.pc = "idle"
    /\ \E str \in {<<43, 48, 53, 48, 48>>, <<48, 53, 48>>, <<57, 57, 48, 48>>,
                   <<45, 48, 53, 120, 120>>, <<45, 45, 53, 48, 48>>} :
          tz' = [tz EXCEPT !.pc = "received", !.tzutc = str]

\* convert_fido_to_nntp applies the TZUTC string to the naive date of the
\* message.
CallParseTzutcOffset ==
    /\ tz.pc \in {"generated", "received"}
    /\ tz' = [tz EXCEPT !.pc = IF tz.pc = "generated" THEN "round_trip" ELSE "parsed",
                        !.parsed = ParseTzutcOffset(tz.tzutc, NaiveDate)]

\* ------------------------------------------------------ outbound packets

\* Longest list of pending messages, and most files of the outbound
\* directory.
MaxPending == 2
MaxFiles == 2

\* int(time.time()) when the gateway starts.
Epoch == 1700000000

\* The configured addresses: well-formed ones, one whose node does not fit
\* the 16 bits of the packet format, and ones whose net or node is not a
\* number.
Addr ==
    [GATEWAY |-> <<49, 58, 49, 47, 49>>,
     POINT |-> <<50, 58, 53, 48, 50, 48, 47, 49, 48, 48, 46, 49, 64, 102, 105, 100, 111, 110, 101, 116>>,
     WIDE |-> <<49, 58, 49, 47, 55, 48, 48, 48, 48>>,
     BADNET |-> <<49, 58, 120, 47, 55>>,
     LINKED |-> <<49, 58, 49, 47, 50>>,
     BADNODE |-> <<49, 58, 49, 47, 120>>]

\* FidoNetModule.parse_fido_address: the dict it returns, and whether it
\* logged 'Invalid FidoNet address format'.  The first int() that raises ends
\* the parsing; the components not yet assigned keep the defaults 1:234/5.0.
ParseFidoAddress(address) ==
    LET Before(s, c) == SubSeq(s, 1, Scan(s, 0, {c}))
        After(s, c) == SubSeq(s, Scan(s, 0, {c}) + 2, Len(s))
        Has(s, c) == Scan(s, 0, {c}) < Len(s)
        result == [zone |-> 1, net |-> 234, node |-> 5, point |-> 0, error |-> FALSE]
        Failed(r) == [r EXCEPT !.error = TRUE]
        Point(r, point_part) ==
            IF ~IsPyInt(point_part) THEN Failed(r) ELSE [r EXCEPT !.point = PyInt(point_part)]
        NodePoint(r, node_str, point_part) ==
            IF ~IsPyInt(node_str) THEN Failed(r)
            ELSE Point([r EXCEPT !.node = PyInt(node_str)], point_part)
        Node(r, node_part) ==
            IF Has(node_part, 46)
            THEN NodePoint(r, Before(node_part, 46), After(node_part, 46))
            ELSE IF ~IsPyInt(node_part) THEN Failed(r)
                 ELSE [r EXCEPT !.node = PyInt(node_part)]
        NetNode(r, net_part, node_part) ==
            IF ~IsPyInt(net_part) THEN Failed(r)
            ELSE Node([r EXCEPT !.net = PyInt(net_part)], node_part)
        Net(r, rest) ==
            IF ~Has(rest, 47) THEN r ELSE NetNode(r, Before(rest, 47), After(rest, 47))
        ZoneNet(zone_part, rest) ==
            IF ~IsPyInt(zone_part) THEN Failed(result)
            ELSE Net([result EXCEPT !.zone = PyInt(zone_part)], rest)
        Zone(addr) ==
            IF Has(addr, 58) THEN ZoneNet(Before(addr, 58), After(addr, 58))
            ELSE Net(result, addr)
    IN Zone(IF Has(address, 64) THEN Before(address, 64) ELSE address)

\* str(n)
Str(n) == IF n < 0 THEN <<45>> \o Dec(0 - n) ELSE Dec(n)

\* format_address_for_seenby giving the node alone.
FormatAddressNodeOnly(address) == Str(ParseFidoAddress(address).node)

\* FidoNetModule.format_address_for_seenby
FormatAddressForSeenby(address) ==
    LET Format(a) == Str(a.net) \o <<47>> \o Str(a.node)
    IN Format(ParseFidoAddress(address))

\* FidoNetModule.get_our_origin under the configuration config.
GetOurOriginOf(config) == ConfigOriginLine \o <<32, 40>> \o config.gateway_address \o <<41>>

\* Gateway.convert_nntp_to_fido of an article '<a@x>' dated in UTC.
ConvertNntpToFido(area_tag, config) ==
    [area |-> area_tag, from_name |-> <<70, 114>>, to_name |-> <<65, 108, 108>>, subject |-> <<83, 117>>,
     datetime |-> WriterDate, text |-> <<65>>,
     origin |-> GetOurOriginOf(config),
     msgid |-> GenerateFidoMsgid(Ids.A, Ids.FQDN, Ids.UUID1, Ids.NOW).value,
     reply |-> GenerateFidoReply(<<>>),
     tearline |-> GenerateTearline,
     pid |-> <<80, 121, 71, 97, 116, 101, 32>> \o ConfigVersion,
     tid |-> <<80, 121, 71, 97, 116, 101, 47, 76, 105, 110, 117, 120, 32>> \o ConfigVersion,
     chrs |-> <<65, 83, 67, 73, 73, 32, 49>>,
     tzutc |-> GenerateTzutcOffset([wall |-> 0, utcoffset |-> 0],
                                   [daylight |-> 0, timezone |-> 0, altzone |-> 0]),
     replyaddr |-> <<102, 64, 120>>,
     replyto |-> config.gateway_address \o <<32, 85, 85, 67, 80>>,
     seen_by |-> <<FormatAddressForSeenby(config.gateway_address),
                   FormatAddressForSeenby(config.linked_address)>>,
     path |-> <<FormatAddressForSeenby(config.gateway_address)>>]

\* MessageHoldModule.generate_netmail_notification: the keys of the dict
\* that create_message reads.
NetmailNotification ==
    [area |-> <<78, 69, 84, 77, 65, 73, 76>>, from_name |-> <<80, 121, 71, 97, 116, 101>>, to_name |-> <<83, 121, 115, 111, 112>>,
     subject |-> <<72, 101, 108, 100>>, datetime |-> WriterDate, text |-> <<65>>]

\* The fido_message FidoNetModule.create_message queues for message and
\* area: origin and destination are those of the configuration.
CreateMessageDict(message, area, config) ==
    LET Dict(our, linked) ==
       [area |-> area,
        from_name |-> Get(message, "from_name", <<85, 110, 107, 110, 111, 119, 110>>),
        to_name |-> Get(message, "to_name", <<65, 108, 108>>),
        subject |-> Get(message, "subject", <<>>),
        text |-> Get(message, "text", <<>>),
        datetime |-> Get(message, "datetime", WriterDate),
        orig_node |-> our.node, orig_net |-> our.net,
        dest_node |-> linked.node, dest_net |-> linked.net,
        attr |-> 0,
        msgid |-> Get(message, "msgid", <<>>),
        reply |-> Get(message, "reply", <<>>),
        origin |-> Get(message, "origin", GetOurOriginOf(config)),
        pid |-> Get(message, "pid", <<>>),
        tid |-> Get(message, "tid", <<>>),
        chrs |-> Get(message, "chrs", <<>>),
        tzutc |-> Get(message, "tzutc", <<>>),
        replyaddr |-> Get(message, "replyaddr", <<>>),
        replyto |-> Get(message, "replyto", <<>>),
        tearline |-> Get(message, "tearline", <<>>),
        seen_by |-> Get(message, "seen_by", <<>>),
        path |-> Get(message, "path", <<>>)]
    IN Dict(ParseFidoAddress(config.gateway_address), ParseFidoAddress(config.linked_address))

\* The fido_message send_areafix_response appends to pending_messages: a
\* netmail reply addressed to the node the request came from.
AreafixResponse(dest, config) ==
    LET Response(our) ==
       [area |-> <<>>, from_name |-> <<65, 114, 101, 97, 102, 105, 120>>, to_name |-> <<70, 114>>,
        subject |-> <<65, 114, 101, 97, 102, 105, 120, 32, 114, 101, 115, 112, 111, 110, 115, 101>>, text |-> <<65>>, datetime |-> WriterDate,
        orig_node |-> our.node, orig_net |-> our.net,
        dest_node |-> dest.node, dest_net |-> dest.net, attr |-> 0,
        msgid |-> <<>>, reply |-> Ids.FIDO, origin |-> GetOurOriginOf(config)]
    IN Response(ParseFidoAddress(config.gateway_address))

\* The name create_packet_file takes for a packet: the 8 hex digits of the
\* timestamp and '.pkt', without the probing of the directory.
PacketNameUnprobed(timestamp, existing) ==
    [k \in 1..8 |-> LET d == (timestamp \div (16 ^ (8 - k))) % 16
                    IN IF d < 10 THEN 48 + d ELSE 87 + d] \o <<46, 112, 107, 116>>

RECURSIVE PacketName(_, _)
\* The name create_packet_file takes for a packet: the 8 hex digits of the
\* timestamp and '.pkt', the timestamp incremented while a file of that name
\* exists.
PacketName(timestamp, existing) ==
    LET packet_name == [k \in 1..8 |-> LET d == (timestamp \div (16 ^ (8 - k))) % 16
                                       IN IF d < 10 THEN 48 + d ELSE 87 + d] \o <<46, 112, 107, 116>>
    IN IF packet_name \in existing THEN PacketName(timestamp + 1, existing)
       ELSE packet_name

\* What create_packet_file leaves in the file it opened: nothing when the
\* struct.pack of the header raises, the bytes written before the
\* write_message that raised, or the whole packet.
PacketFileBytes(messages, config, now) ==
    LET Write(our, dest) ==
            IF \E v \in {our.node, dest.node, our.net, dest.net, our.zone, dest.zone} :
                  v \notin 0..65535
            THEN [raised |-> TRUE, bytes |-> <<>>]
            ELSE PacketBytes(messages, our, dest, now, <<>>)
    IN Write(ParseFidoAddress(config.gateway_address), ParseFidoAddress(config.linked_address))

\* dest_groups of create_packets: the messages of each destination, the
\* destinations in the order of their first message.
DestGroups(messages) ==
    LET Key(m) == Str(m.dest_net) \o <<47>> \o Str(m.dest_node)
        RECURSIVE Keys(_, _)
        Keys(i, acc) ==
            IF i > Len(messages) THEN acc
            ELSE IF \E j \in 1..Len(acc) : acc[j] = Key(messages[i]) THEN Keys(i + 1, acc)
            ELSE Keys(i + 1, Append(acc, Key(messages[i])))
        keys == Keys(1, <<>>)
        Same(k) == LET IsK(m) == Key(m) = k IN SelectSeq(messages, IsK)
    IN [g \in 1..Len(keys) |-> Same(keys[g])]

VARIABLES
    fido     \* a FidoNetModule and its directory: the configured addresses,
             \* pending_messages, the files of the outbound directory, the
             \* clock, and for the last create_packets the messages that
             \* were pending and the names of the files it opened

\* Before pygate.cfg is read no address is configured.
NoConfig == [gateway_address |-> <<>>, linked_address |-> <<>>]

FidoInit ==
    fido = [config |-> NoConfig, pending |-> <<>>, outbound |-> <<>>, clock |-> Epoch,
            packed |-> <<>>, created |-> <<>>]

\* The gateway reads its configuration and constructs its FidoNetModule.
LoadConfig ==
    /\ fido.config = NoConfig
    /\ \E gateway_address \in {Addr.GATEWAY, Addr.POINT, Addr.WIDE, Addr.BADNET},
          linked_address \in {Addr.LINKED, Addr.BADNODE} :
          /\ linked_address = Addr.BADNODE => gateway_address = Addr.GATEWAY
          /\ fido' = [fido EXCEPT !.config = [gateway_address |-> gateway_address,
                                              linked_address |-> linked_address]]

\* export_messages queues a converted article of the area TEST;
\* send_hold_notification queues its netmail through create_message.
\* Messages are queued while the outbound directory has room for a file.
CreateMessage ==
    /\ fido.config # NoConfig
    /\ Len(fido.pending) < MaxPending
    /\ Len(fido.outbound) < MaxFiles
    /\ \E message \in {CreateMessageDict(ConvertNntpToFido(<<84, 69, 83, 84>>, fido.config),
                                         <<84, 69, 83, 84>>, fido.config),
                       CreateMessageDict(NetmailNotification, <<78, 69, 84, 77, 65, 73, 76>>, fido.config)} :
          fido' = [fido EXCEPT !.pending = Append(@, message)]

\* send_areafix_response appends its reply to pending_messages itself; the
\* request came from the node 1/3.
AppendAreafixResponse ==
    /\ fido.config # NoConfig
    /\ Len(fido.pending) < MaxPending
    /\ Len(fido.outbound) < MaxFiles
    /\ fido' = [fido EXCEPT !.pending = Append(@, AreafixResponse([net |-> 1, node |-> 3],
                                                                  fido.config))]

\* create_packets: one create_packet_file per destination, then
\* pending_messages.clear().  A second passes between two calls or not.
CreatePackets ==
    /\ fido.pending # <<>>
    /\ Len(fido.outbound) + Len(DestGroups(fido.pending)) <= MaxFiles
    /\ \E now \in {fido.clock, fido.clock + 1} :
          LET groups == DestGroups(fido.pending)
              RECURSIVE Files(_, _, _)
              Files(g, dir, names) ==
                  IF g > Len(groups) THEN [dir |-> dir, names |-> names]
                  ELSE LET w == PacketFileBytes(groups[g], fido.config, WriterDate)
                           name == PacketName(now, {dir[i].name : i \in 1..Len(dir)})
                           kept == SelectSeq(dir, LAMBDA f : f.name # name)
                       IN Files(g + 1,
                                Append(kept, [name |-> name, messages |-> groups[g],
                                              raised |-> w.raised, bytes |-> w.bytes]),
                                Append(names, name))
              after == Files(1, fido.outbound, <<>>)
          IN fido' = [fido EXCEPT !.pending = <<>>, !.outbound = after.dir, !.clock = now,
                                  !.packed = fido.pending, !.created = after.names]

\* ------------------------------------------------------- export runs

\* The limit of articles fetched per run from a newsgroup already gated.
FETCH_LIMIT == 100
\* The highest article number the server reaches.
MaxArticle == 230
\* The number of articles posted to the newsgroup between two runs.
Batch == 110

Max(a, b) == IF a > b THEN a ELSE b

\* fetch_messages with a window one article too low: the fetch starts at
\* last_article itself.
FetchWindowFromLast(last_processed, first_num, last_num, initial_fetch) ==
    LET start_article == Max(last_processed, first_num)
    IN IF start_article > last_num THEN [fetch |-> FALSE, start |-> 0, end |-> 0]
       ELSE LET fetch_limit ==
                    IF last_processed = 0
                    THEN Min(initial_fetch, last_num - start_article + 1)
                    ELSE Min(FETCH_LIMIT, last_num - start_article + 1)
            IN [fetch |-> TRUE, start |-> start_article,
                end |-> Min(start_article + fetch_limit - 1, last_num)]

\* The article numbers fetch_messages asks for: none when the area is up to
\* date, else start_article..end_article.
FetchWindow(last_processed, first_num, last_num, initial_fetch) ==
    LET start_article == Max(last_processed + 1, first_num)
    IN IF start_article > last_num THEN [fetch |-> FALSE, start |-> 0, end |-> 0]
       ELSE LET fetch_limit ==
                    IF last_processed = 0
                    THEN Min(initial_fetch, last_num - start_article + 1)
                    ELSE Min(FETCH_LIMIT, last_num - start_article + 1)
            IN [fetch |-> TRUE, start |-> start_article,
                end |-> Min(start_article + fetch_limit - 1, last_num)]

\* fetch_messages on a group whose GROUP answer is first_num, last_num and
\* whose articles up to missing_upto are gone: the numbers requested, the
\* numbers of the messages returned, and last_article of area_config
\* afterwards. An article that is gone is either delivered in a form
\* parse_nntp_article returns None for, and is skipped, or (absent) answered
\* with the single line 430: article() reads that answer as the first line
\* of a multi-line one and waits for the terminating '.' until the socket
\* times out, after which every later read of the run fails as well.
FetchMessages(last_processed, first_num, last_num, missing_upto, initial_fetch, absent) ==
    LET w == FetchWindow(last_processed, first_num, last_num, initial_fetch)
        requested == IF w.fetch THEN w.start..w.end ELSE {}
        messages == IF absent
                    THEN {n \in requested : \A k \in w.start..n : k > missing_upto}
                    ELSE {n \in requested : n > missing_upto}
    IN [requested |-> requested, messages |-> messages,
        last_article |-> IF messages # {} THEN w.end ELSE last_processed]

VARIABLES
    export   \* one area of the areas file and its newsgroup on the server:
             \* last_article as the file has it, the GROUP answer, the
             \* articles that are gone, [SpamFilter] initialfetch, and the
             \* last export run: what it requested and whether it saved

ExportInit ==
    export = [last_article |-> 0, first |-> 1, last |-> 0, missing_upto |-> 0,
              absent |-> FALSE, initial_fetch |-> 3, requested |-> {}, before |-> 0,
              ran |-> "none"]

\* The areas file and the configuration are written, and the newsgroup has
\* its articles.
SetupArea ==
    /\ export.ran = "none"
    /\ export.last = 0
    /\ \E last_article \in {0, 2, 120}, first \in {1, 110}, last \in {2, 105, 225},
          missing_upto \in {0, 112, MaxArticle}, initial_fetch \in {3, 150},
          absent \in BOOLEAN :
          export' = [export EXCEPT !.last_article = last_article,
                                   !.before = last_article, !.first = first,
                                   !.last = last, !.missing_upto = missing_upto,
                                   !.absent = absent,
                                   !.initial_fetch = initial_fetch]

\* Articles are posted to the newsgroup between two runs.
ServerPosts ==
    /\ export.last > 0
    /\ export.last + Batch <= MaxArticle
    /\ export' = [export EXCEPT !.last = @ + Batch]

\* One export run on the area: load_areas_config, fetch_messages,
\* create_packets when messages were exported, save_areas_config.  The GROUP
\* command may fail, and the run may end without saving the areas file
\* (create_packets returned False, or the file could not be written).
Export(group_ok, saved) ==
    /\ export.last > 0
    /\ LET r == FetchMessages(export.last_article, export.first, export.last,
                              export.missing_upto, export.initial_fetch,
                              export.absent)
       IN export' = [export EXCEPT
                        !.before = export.last_article,
                        !.requested = IF group_ok THEN r.requested ELSE {},
                        !.last_article = IF group_ok /\ saved THEN r.last_article ELSE @,
                        !.ran = IF ~group_ok THEN "group_failed"
                                ELSE IF saved THEN "saved" ELSE "not_saved"]

ExportRun == \E group_ok \in BOOLEAN, saved \in BOOLEAN : Export(group_ok, saved)

\* ------------------------------------------------- the NNTP connection
\*
\* nntp_module.py: NNTPModule.connection over the runs of one Gateway.

\* The number of connections one Gateway opens.
MaxConnections == 3
\* The number of post_message calls of one run.
MaxPosts == 2

VARIABLES
    session  \* NNTPModule.connection (0 for None, else the number of the
             \* CustomNNTPClient it refers to), what became of the socket of
             \* each client made so far, the position of the run, and the
             \* number of post_message calls of the run

SessionInit ==
    session = [connection |-> 0, sockets |-> <<>>, pc |-> "idle", posts |-> 0]

ConnectOutcomes == {"refused", "no_welcome", "login_failed", "connected"}

\* connect(): the client is made and assigned to connection, and connect()
\* is called on it; the socket is not made (refused), or it is made and the
\* welcome cannot be read, or login raises NNTPReplyError or NNTPError, or
\* all goes well.  login never raises NNTPPermanentError, so every failure
\* ends in the outer handler, which sets connection to None without quit().
\* A client that nothing refers to any more is freed when connect() returns,
\* and its socket is closed with it: no QUIT is sent ("dropped").
ModuleConnect(s, outcome) ==
    LET old == IF s.connection = 0 THEN s.sockets
               ELSE [s.sockets EXCEPT ![s.connection] = "dropped"]
    IN IF outcome = "refused"
       THEN [s EXCEPT !.sockets = old, !.connection = 0]
       ELSE [s EXCEPT !.sockets = Append(old, IF outcome = "connected" THEN "open"
                                              ELSE "dropped"),
                      !.connection = IF outcome = "connected" THEN Len(s.sockets) + 1
                                     ELSE 0]

\* disconnect(): quit() sends QUIT and closes the socket.
ModuleDisconnect(s) ==
    IF s.connection = 0 THEN s
    ELSE [s EXCEPT !.sockets[s.connection] = "quit", !.connection = 0]

\* import_packets begins.
StartRun ==
    /\ session.pc \in {"idle", "ended"}
    /\ session' = [session EXCEPT !.pc = "running", !.posts = 0]

\* post_message: connects when connection is None, and posts.
PostInRun ==
    /\ session.pc = "running"
    /\ session.posts < MaxPosts
    /\ \E outcome \in ConnectOutcomes :
          /\ session.connection = 0 => Len(session.sockets) < MaxConnections
          /\ session' = [(IF session.connection = 0 THEN ModuleConnect(session, outcome)
                          ELSE session) EXCEPT !.posts = @ + 1]

\* import_packets returns; it leaves the connection as it is.
EndRun ==
    /\ session.pc = "running"
    /\ session' = [session EXCEPT !.pc = "ended"]

\* test_connection: connect() and, when that returned True, disconnect().
TestConnection ==
    /\ session.pc \in {"idle", "ended"}
    /\ Len(session.sockets) < MaxConnections
    /\ \E outcome \in ConnectOutcomes :
          session' = IF outcome = "connected" THEN ModuleDisconnect(ModuleConnect(session, outcome))
                     ELSE ModuleConnect(session, outcome)

\* --------------------------------------------------- the automation lock
\*
\* bin/gate.py: the gate.py processes and the lock file pygate.lock.

\* The number of gate.py processes.
MaxProcs == 3

Procs == 1..MaxProcs

VARIABLES
    lock,    \* the lock file: the file at the path (0 for none, else the
             \* process whose open() made it) and the PID in it (0 for none)
    gate     \* process -> its position in run(), and the file its open()
             \* of check_lock gave it

NoLock == [inode |-> 0, content |-> 0]

LockInit ==
    /\ lock = NoLock
    /\ gate = [p \in Procs |-> [pc |-> "idle", fd |-> 0]]

\* psutil.pid_exists(pid) and a process of that PID whose name holds
\* 'python': the process has been started and has not exited.
Running(p) == gate[p].pc \notin {"idle", "exited"}

\* cleanup(): the lock file is removed when it exists.
Cleanup == [inode |-> 0, content |-> 0]

\* The process is started: __init__ installs the signal handlers, run()
\* logs and rotates the logs.
StartGate(p) ==
    /\ gate[p].pc = "idle"
    /\ gate' = [gate EXCEPT ![p].pc = "check_lock"]
    /\ UNCHANGED lock

\* check_lock: self.lockfile.exists().
CheckExists(p) ==
    /\ gate[p].pc = "check_lock"
    /\ gate' = [gate EXCEPT ![p].pc = IF lock.inode = 0 THEN "create" ELSE "read"]
    /\ UNCHANGED lock

\* check_lock: the file is read and the PID in it looked up.  A live holder
\* ends the process with sys.exit(0), which run() does not catch; a PID of
\* no running process makes the lock a stale one; a file gone meanwhile or
\* an empty one raises, and the handler goes on to unlink.
ReadLock(p) ==
    /\ gate[p].pc = "read"
    /\ gate' = [gate EXCEPT ![p].pc =
                    IF lock.inode # 0 /\ lock.content # 0 /\ Running(lock.content)
                    THEN "exited" ELSE "unlink"]
    /\ UNCHANGED lock

\* check_lock: self.lockfile.unlink() of the stale or unreadable lock file;
\* a failure of the unlink is passed over.
UnlinkStale(p) ==
    /\ gate[p].pc = "unlink"
    /\ lock' = NoLock
    /\ gate' = [gate EXCEPT ![p].pc = "create"]

\* check_lock: open(self.lockfile, 'w') makes the file or empties the one
\* that is there.
CreateLock(p) ==
    /\ gate[p].pc = "create"
    /\ lock' = [inode |-> IF lock.inode = 0 THEN p ELSE lock.inode, content |-> 0]
    /\ gate' = [gate EXCEPT ![p].pc = "write", ![p].fd = lock'.inode]

\* check_lock: f.write(str(current_pid)) and the close of the file; the
\* process then goes on into preflight_checks and run_pygate_cycle.
WriteLock(p) ==
    /\ gate[p].pc = "write"
    /\ lock' = IF lock.inode = gate[p].fd THEN [lock EXCEPT !.content = p] ELSE lock
    /\ gate' = [gate EXCEPT ![p].pc = "cycle"]

\* run(): the cycle, the statistics and the maintenance are done; cleanup()
\* and return.
FinishGate(p) ==
    /\ gate[p].pc = "cycle"
    /\ lock' = Cleanup
    /\ gate' = [gate EXCEPT ![p].pc = "exited"]

\* _signal_handler on SIGINT or SIGTERM, at any point of the run: cleanup()
\* and sys.exit.
SignalGate(p) ==
    /\ Running(p)
    /\ lock' = Cleanup
    /\ gate' = [gate EXCEPT ![p].pc = "exited"]

\* ----------------------------------------------------- the held messages
\*
\* hold_module.py and the runs of gateway.py that post approved messages.

\* The number of messages held.
MaxHolds == 3

HoldIds == 1..MaxHolds

Directions == {"nntp", "fidonet"}

VARIABLES
    hold     \* the hold directory: the ids with a file in pending, approved,
             \* rejected and backup, the direction in each id's record, how
             \* often each message was delivered to NNTP and to FidoNet, and
             \* the last call: its name, its hold id and what it returned

NoCall == [op |-> "none", id |-> 0, ok |-> FALSE]

HoldInit ==
    hold = [made |-> 0, pending |-> {}, approved |-> {}, rejected |-> {}, backup |-> {},
            direction |-> [i \in HoldIds |-> "nntp"],
            delivered |-> [i \in HoldIds |-> [nntp |-> 0, fidonet |-> 0]],
            last |-> NoCall]

\* approve_message without the unlink of the pending file.
ApproveKeepingPending(h, id) ==
    IF id \notin h.pending
    THEN [h EXCEPT !.last = [op |-> "approve", id |-> id, ok |-> FALSE]]
    ELSE [h EXCEPT !.approved = @ \cup {id},
                   !.last = [op |-> "approve", id |-> id, ok |-> TRUE]]

\* approve_message: False when pending/<id>.json does not exist; else the
\* record is written to approved and the pending file is unlinked.
Approve(h, id) ==
    IF id \notin h.pending
    THEN [h EXCEPT !.last = [op |-> "approve", id |-> id, ok |-> FALSE]]
    ELSE [h EXCEPT !.approved = @ \cup {id}, !.pending = @ \ {id},
                   !.last = [op |-> "approve", id |-> id, ok |-> TRUE]]

\* reject_message: the same into rejected.
Reject(h, id) ==
    IF id \notin h.pending
    THEN [h EXCEPT !.last = [op |-> "reject", id |-> id, ok |-> FALSE]]
    ELSE [h EXCEPT !.rejected = @ \cup {id}, !.pending = @ \ {id},
                   !.last = [op |-> "reject", id |-> id, ok |-> TRUE]]

\* release_approved_message: None when approved/<id>.json does not exist;
\* else the record is copied to backup, the approved file is unlinked and
\* the original message returned.
Release(h, id) ==
    IF id \notin h.approved
    THEN [h EXCEPT !.last = [op |-> "release", id |-> id, ok |-> FALSE]]
    ELSE [h EXCEPT !.backup = @ \cup {id}, !.approved = @ \ {id},
                   !.last = [op |-> "release", id |-> id, ok |-> TRUE]]

RECURSIVE ReleaseAll(_, _)
ReleaseAll(h, ids) ==
    IF ids = {} THEN h
    ELSE LET id == CHOOSE i \in ids : TRUE
         IN ReleaseAll(Release(h, id), ids \ {id})

\* hold_message: a record with a new uuid4 is written to pending; the
\* direction is "fidonet" for an article held by the export and "nntp" for
\* a packet message held by the import.
HoldMessage ==
    /\ hold.made < MaxHolds
    /\ \E direction \in Directions :
          hold' = [hold EXCEPT !.made = @ + 1, !.pending = @ \cup {hold.made + 1},
                               !.direction[hold.made + 1] = direction,
                               !.last = [op |-> "hold", id |-> hold.made + 1, ok |-> TRUE]]

\* The admin panel approves or rejects a hold id, held or not.
ApproveMessage == \E id \in HoldIds : hold' = Approve(hold, id)

RejectMessage == \E id \in HoldIds : hold' = Reject(hold, id)

\* release_approved_message called with a hold id, approved or not.
ReleaseApprovedMessage == \E id \in HoldIds : hold' = Release(hold, id)

\* process_approved_messages (start of export_messages): every approved
\* record of direction fidonet is released, and then converted and given to
\* create_message (which may fail, as may the lookup of the area); when a
\* message was queued create_packets writes the packets, or fails.
ProcessApprovedMessages ==
    LET ids == {i \in hold.approved : hold.direction[i] = "fidonet"}
    IN /\ ids # {}
       /\ \E queued \in SUBSET ids, packet_success \in BOOLEAN :
             LET sent_ids == IF packet_success THEN queued ELSE {}
                 h == ReleaseAll(hold, ids)
             IN hold' = [h EXCEPT
                            !.delivered = [i \in HoldIds |->
                                IF i \in sent_ids THEN [@[i] EXCEPT !.fidonet = @ + 1]
                                ELSE @[i]],
                            !.last = [op |-> "process_approved_messages", id |-> 0,
                                      ok |-> queued = {} \/ packet_success]]

\* process_approved_messages_to_nntp (start of import_packets): every
\* approved record of direction nntp is released and then given to
\* post_message, which may fail.
ProcessApprovedMessagesToNntp ==
    LET ids == {i \in hold.approved : hold.direction[i] = "nntp"}
    IN /\ ids # {}
       /\ \E posted \in SUBSET ids :
             LET h == ReleaseAll(hold, ids)
             IN hold' = [h EXCEPT
                            !.delivered = [i \in HoldIds |->
                                IF i \in posted THEN [@[i] EXCEPT !.nntp = @ + 1]
                                ELSE @[i]],
                            !.last = [op |-> "process_approved_messages_to_nntp",
                                      id |-> 0, ok |-> TRUE]]

\* --------------------------------------------------------- specifications

vars == <<codecVars, importVars, nntpVars, wire, calls, tz, fido, export, session, lock, gate, hold>>

Init == CodecInit /\ ImportInit /\ NntpInit /\ WireInit /\ CallsInit /\ TzInit /\ FidoInit /\ ExportInit /\ SessionInit /\ LockInit /\ HoldInit

Next ==
    \/ Receive /\ UNCHANGED <<importVars, nntpVars, wire, calls, tz, fido, export, session, lock, gate, hold>>
    \/ CreatePacketFile /\ UNCHANGED <<importVars, nntpVars, wire, calls, tz, fido, export, session, lock, gate, hold>>
    \/ TruncateFile /\ UNCHANGED <<importVars, nntpVars, wire, calls, tz, fido, export, session, lock, gate, hold>>
    \/ ParseFile /\ UNCHANGED <<importVars, nntpVars, wire, calls, tz, fido, export, session, lock, gate, hold>>
    \/ RepairFile /\ UNCHANGED <<importVars, nntpVars, wire, calls, tz, fido, export, session, lock, gate, hold>>

Spec == Init /\ [][Next]_vars

NextImport ==
    \/ Deliver /\ UNCHANGED <<codecVars, nntpVars, wire, calls, tz, fido, export, session, lock, gate, hold>>
    \/ StartImport /\ UNCHANGED <<codecVars, nntpVars, wire, calls, tz, fido, export, session, lock, gate, hold>>
    \/ ImportPacket /\ UNCHANGED <<codecVars, nntpVars, wire, calls, tz, fido, export, session, lock, gate, hold>>
    \/ ImportHangs /\ UNCHANGED <<codecVars, nntpVars, wire, calls, tz, fido, export, session, lock, gate, hold>>
    \/ FinishImport /\ UNCHANGED <<codecVars, nntpVars, wire, calls, tz, fido, export, session, lock, gate, hold>>

SpecImport == Init /\ [][NextImport]_vars

\* The areafix-only runs and the import runs of one inbound directory.
NextAreafix ==
    \/ NextImport
    \/ StartAreafixOnly /\ UNCHANGED <<codecVars, nntpVars, wire, calls, tz, fido, export, session, lock, gate, hold>>
    \/ AreafixPacket /\ UNCHANGED <<codecVars, nntpVars, wire, calls, tz, fido, export, session, lock, gate, hold>>
    \/ AreafixHangs /\ UNCHANGED <<codecVars, nntpVars, wire, calls, tz, fido, export, session, lock, gate, hold>>
    \/ FinishAreafixOnly /\ UNCHANGED <<codecVars, nntpVars, wire, calls, tz, fido, export, session, lock, gate, hold>>

SpecAreafix == Init /\ [][NextAreafix]_vars

NextNntp ==
    \/ Login /\ UNCHANGED <<codecVars, importVars, wire, calls, tz, fido, export, session, lock, gate, hold>>
    \/ Group /\ UNCHANGED <<codecVars, importVars, wire, calls, tz, fido, export, session, lock, gate, hold>>
    \/ Article /\ UNCHANGED <<codecVars, importVars, wire, calls, tz, fido, export, session, lock, gate, hold>>
    \/ HeadCmd /\ UNCHANGED <<codecVars, importVars, wire, calls, tz, fido, export, session, lock, gate, hold>>
    \/ Post /\ UNCHANGED <<codecVars, importVars, wire, calls, tz, fido, export, session, lock, gate, hold>>
    \/ Over /\ UNCHANGED <<codecVars, importVars, wire, calls, tz, fido, export, session, lock, gate, hold>>
    \/ Xover /\ UNCHANGED <<codecVars, importVars, wire, calls, tz, fido, export, session, lock, gate, hold>>
    \/ List /\ UNCHANGED <<codecVars, importVars, wire, calls, tz, fido, export, session, lock, gate, hold>>
    \/ PostMessage /\ UNCHANGED <<codecVars, importVars, wire, calls, tz, fido, export, session, lock, gate, hold>>
    \/ ShortResp /\ UNCHANGED <<codecVars, importVars, wire, calls, tz, fido, export, session, lock, gate, hold>>
    \/ LongRespStatus /\ UNCHANGED <<codecVars, importVars, wire, calls, tz, fido, export, session, lock, gate, hold>>
    \/ LongRespLine /\ UNCHANGED <<codecVars, importVars, wire, calls, tz, fido, export, session, lock, gate, hold>>
    \/ ReadTimeout /\ UNCHANGED <<codecVars, importVars, wire, calls, tz, fido, export, session, lock, gate, hold>>

SpecNntp == Init /\ [][NextNntp]_vars

NextWire ==
    \/ WirePost /\ UNCHANGED <<codecVars, importVars, nntpVars, calls, tz, fido, export, session, lock, gate, hold>>
    \/ WireReadLine /\ UNCHANGED <<codecVars, importVars, nntpVars, calls, tz, fido, export, session, lock, gate, hold>>

SpecWire == Init /\ [][NextWire]_vars

NextIds ==
    \/ CallGenerateFidoMsgid /\ UNCHANGED <<codecVars, importVars, nntpVars, wire, tz, fido, export, session, lock, gate, hold>>
    \/ CallGenerateFidoReply /\ UNCHANGED <<codecVars, importVars, nntpVars, wire, tz, fido, export, session, lock, gate, hold>>
    \/ CallConvertFidoMsgid /\ UNCHANGED <<codecVars, importVars, nntpVars, wire, tz, fido, export, session, lock, gate, hold>>

SpecIds == Init /\ [][NextIds]_vars

NextTz ==
    \/ CallGenerateTzutcOffset /\ UNCHANGED <<codecVars, importVars, nntpVars, wire, calls, fido, export, session, lock, gate, hold>>
    \/ ReceiveTzutc /\ UNCHANGED <<codecVars, importVars, nntpVars, wire, calls, fido, export, session, lock, gate, hold>>
    \/ CallParseTzutcOffset /\ UNCHANGED <<codecVars, importVars, nntpVars, wire, calls, fido, export, session, lock, gate, hold>>

SpecTz == Init /\ [][NextTz]_vars

NextFido ==
    \/ LoadConfig /\ UNCHANGED <<codecVars, importVars, nntpVars, wire, calls, tz, export, session, lock, gate, hold>>
    \/ CreateMessage /\ UNCHANGED <<codecVars, importVars, nntpVars, wire, calls, tz, export, session, lock, gate, hold>>
    \/ AppendAreafixResponse /\ UNCHANGED <<codecVars, importVars, nntpVars, wire, calls, tz, export, session, lock, gate, hold>>
    \/ CreatePackets /\ UNCHANGED <<codecVars, importVars, nntpVars, wire, calls, tz, export, session, lock, gate, hold>>

SpecFido == Init /\ [][NextFido]_vars

NextExport ==
    \/ SetupArea /\ UNCHANGED <<codecVars, importVars, nntpVars, wire, calls, tz, fido, session, lock, gate, hold>>
    \/ ServerPosts /\ UNCHANGED <<codecVars, importVars, nntpVars, wire, calls, tz, fido, session, lock, gate, hold>>
    \/ ExportRun /\ UNCHANGED <<codecVars, importVars, nntpVars, wire, calls, tz, fido, session, lock, gate, hold>>

SpecExport == Init /\ [][NextExport]_vars

\* The export is run again and again (gate.py from cron), and runs in which
\* GROUP is answered and the areas file is written keep happening.
SpecExportLive ==
    /\ Init
    /\ [][NextExport]_vars
    /\ WF_vars(Export(TRUE, TRUE)
                 /\ UNCHANGED <<codecVars, importVars, nntpVars, wire, calls, tz, fido, session, lock, gate, hold>>)

NextSession ==
    \/ StartRun /\ UNCHANGED <<codecVars, importVars, nntpVars, wire, calls, tz, fido, export, lock, gate, hold>>
    \/ PostInRun /\ UNCHANGED <<codecVars, importVars, nntpVars, wire, calls, tz, fido, export, lock, gate, hold>>
    \/ EndRun /\ UNCHANGED <<codecVars, importVars, nntpVars, wire, calls, tz, fido, export, lock, gate, hold>>
    \/ TestConnection /\ UNCHANGED <<codecVars, importVars, nntpVars, wire, calls, tz, fido, export, lock, gate, hold>>

SpecSession == Init /\ [][NextSession]_vars

NextLock ==
    \/ \E p \in Procs : StartGate(p) /\ UNCHANGED <<codecVars, importVars, nntpVars, wire, calls, tz, fido, export, session, hold>>
    \/ \E p \in Procs : CheckExists(p) /\ UNCHANGED <<codecVars, importVars, nntpVars, wire, calls, tz, fido, export, session, hold>>
    \/ \E p \in Procs : ReadLock(p) /\ UNCHANGED <<codecVars, importVars, nntpVars, wire, calls, tz, fido, export, session, hold>>
    \/ \E p \in Procs : UnlinkStale(p) /\ UNCHANGED <<codecVars, importVars, nntpVars, wire, calls, tz, fido, export, session, hold>>
    \/ \E p \in Procs : CreateLock(p) /\ UNCHANGED <<codecVars, importVars, nntpVars, wire, calls, tz, fido, export, session, hold>>
    \/ \E p \in Procs : WriteLock(p) /\ UNCHANGED <<codecVars, importVars, nntpVars, wire, calls, tz, fido, export, session, hold>>
    \/ \E p \in Procs : FinishGate(p) /\ UNCHANGED <<codecVars, importVars, nntpVars, wire, calls, tz, fido, export, session, hold>>
    \/ \E p \in Procs : SignalGate(p) /\ UNCHANGED <<codecVars, importVars, nntpVars, wire, calls, tz, fido, export, session, hold>>

SpecLock == Init /\ [][NextLock]_vars

NextHoldRuns ==
    \/ HoldMessage /\ UNCHANGED <<codecVars, importVars, nntpVars, wire, calls, tz, fido, export, session, lock, gate>>
    \/ ApproveMessage /\ UNCHANGED <<codecVars, importVars, nntpVars, wire, calls, tz, fido, export, session, lock, gate>>
    \/ RejectMessage /\ UNCHANGED <<codecVars, importVars, nntpVars, wire, calls, tz, fido, export, session, lock, gate>>
    \/ ProcessApprovedMessages /\ UNCHANGED <<codecVars, importVars, nntpVars, wire, calls, tz, fido, export, session, lock, gate>>
    \/ ProcessApprovedMessagesToNntp /\ UNCHANGED <<codecVars, importVars, nntpVars, wire, calls, tz, fido, export, session, lock, gate>>

SpecHoldRuns == Init /\ [][NextHoldRuns]_vars

NextHold ==
    \/ NextHoldRuns
    \/ ReleaseApprovedMessage /\ UNCHANGED <<codecVars, importVars, nntpVars, wire, calls, tz, fido, export, session, lock, gate>>

SpecHold == Init /\ [][NextHold]_vars

\* ------------------------------------------------------------ properties

RECURSIVE SumLen(_)
SumLen(ss) == IF ss = <<>> THEN 0 ELSE Len(Head(ss)) + SumLen(Tail(ss))

Parsed == parsed.outcome # "not_run"
Repaired == repaired.outcome # "not_run"

\* The file is a whole inbound packet that ends with the end-of-packet marker
\* and whose texts hold no null.
WellFormedInbound ==
    /\ origin.kind = "inbound"
    /\ ~origin.cut
    /\ origin.tail = EndMarker
    /\ \A i \in 1..Len(origin.msgs) :
          \A k \in 1..Len(origin.msgs[i].text) : origin.msgs[i].text[k] # NUL

\* The offset of message i of the inbound packet.
InboundStart(i) ==
    PKT_HEADER_LEN + SumLen([j \in 1..(i - 1) |-> InboundMessage(origin.msgs[j])])

\* The byte after offset at is 0, or the 16-bit word after it is 2.
LookaheadEnds(data, at) ==
    \/ at + 1 < Len(data) /\ data[at + 2] = 0
    \/ at + 2 < Len(data) /\ U16(data, at + 1) = 2

\* C1: a null read in a message's text by parse_packet ends the message if
\* and only if the byte after it is 0 or the 16-bit word after it is 2
\* (stated for the packets whose only nulls after the subject are the
\* terminators of the texts).
C1_NullEndsIffLookahead ==
    (Parsed /\ WellFormedInbound) => \A k \in 1..Len(parsed.nulls) :
                 parsed.nulls[k].ended <=> LookaheadEnds(file, parsed.nulls[k].at)

\* C2: parse_packet on a well-formed packet of N messages returns N records,
\* in packet order, and no record reaches into the next message.
C2_ParseReturnsEveryMessage ==
    (Parsed /\ WellFormedInbound) =>
        /\ parsed.outcome = "returned"
        /\ Len(parsed.msgs) = Len(origin.msgs)
        /\ \A i \in 1..Len(parsed.msgs) :
              /\ parsed.msgs[i].at = InboundStart(i)
              /\ i < Len(origin.msgs) => parsed.msgs[i].end <= InboundStart(i + 1)

\* The file is a whole packet written by create_packet_file from messages
\* with no embedded null and no oversized field.
PlainCreated ==
    /\ origin.kind = "created"
    /\ ~origin.cut
    /\ \A i \in 1..Len(origin.msgs) :
          /\ Len(origin.msgs[i].to_name) <= NAME_MAX
          /\ Len(origin.msgs[i].from_name) <= NAME_MAX
          /\ Len(origin.msgs[i].subject) <= SUBJECT_MAX
          /\ \A k \in 1..Len(origin.msgs[i].text) : origin.msgs[i].text[k] # NUL

\* C3: writing messages and parsing the packet gives the same number of
\* messages with the same record fields, names, subject, text and kludges.
C3_WriteParseRoundTrip ==
    (Parsed /\ PlainCreated) =>
        /\ Len(parsed.msgs) = Len(origin.msgs)
        /\ \A i \in 1..Len(parsed.msgs) :
              LET got == parsed.msgs[i]
                  given == origin.msgs[i]
              IN /\ got.orig_node = given.orig_node /\ got.dest_node = given.dest_node
                 /\ got.orig_net = given.orig_net /\ got.dest_net = given.dest_net
                 /\ got.attr = given.attr
                 /\ got.to_name = given.to_name /\ got.from_name = given.from_name
                 /\ got.subject = given.subject
                 /\ got.text = given.text
                 /\ got.msgid = given.msgid /\ got.reply = given.reply
                 /\ got.tzutc = given.tzutc

\* C4: the parser consumes exactly 20 bytes for the date of a message the
\* writer wrote, and reads the to name the writer wrote after it.
C4_DateIsTwentyBytes ==
    (Parsed /\ PlainCreated) =>
        \A i \in 1..Len(parsed.msgs) :
            /\ parsed.msgs[i].date_len = DATE_LEN
            /\ i = 1 => parsed.msgs[i].to_name = origin.msgs[i].to_name

\* C5: a version word other than 0 and 2, where a record starts, makes
\* parse_packet end with an error; a version word of 0, or fewer than 14
\* bytes, ends it normally.
C5_BadVersionIsAnError ==
    (Parsed /\ origin.kind = "inbound" /\ ~origin.cut) =>
        /\ (/\ origin.tail = BadRecord
            /\ parsed.stop.why = "bad_version"
            /\ parsed.stop.at = InboundStart(Len(origin.msgs) + 1))
           => parsed.outcome = "error"
        /\ parsed.stop.why \in {"end_marker", "short_header"} =>
              parsed.outcome = "returned"

\* The file is a prefix of a packet that lacks at least its end-of-packet
\* marker.
CutBeforeMarker == origin.cut /\ Len(file) <= PKT_HEADER_LEN + SumLen(
    IF origin.kind = "inbound"
    THEN [j \in 1..Len(origin.msgs) |-> InboundMessage(origin.msgs[j])]
    ELSE [j \in 1..Len(origin.msgs) |-> WriteMessage(origin.msgs[j]).bytes])

\* C6: parse_packet on a file shorter than the packet header, or on a prefix
\* of a packet cut before its end-of-packet marker, does not return a list.
C6_TruncatedIsAnError ==
    (Parsed /\ CutBeforeMarker) => parsed.outcome = "error"

\* The packet file is structurally broken: a partly written packet, or one
\* with a version word other than 0 and 2 where a record starts.
Broken(p) == p.cut \/ p.tail = BadRecord

\* C7: a structurally broken inbound packet is never renamed into processed;
\* once the import run has taken it out of the inbound directory it is in bad.
C7_BrokenIsQuarantined ==
    \A n \in PacketNames :
        Broken(packets[n]) =>
            /\ n \notin processed_dir
            /\ (packets[n] # NoPacket /\ n \notin inbound_dir) => n \in bad_dir

\* C10: a call of the client reads exactly the response to its command: it
\* never waits for a line the server does not send, it has left no line
\* unread when it ends, and it reads lines after the status line of a
\* multi-line command only when the status is the success status.
C10_ReadsExactlyItsResponse ==
    /\ client.pc \in {"getresp", "getlongresp", "getlines"} => inbox # <<>>
    /\ client.pc = "idle" => inbox = <<>>
    /\ client.pc = "getlines" => client.resp.code \in {215, 220, 221, 224}

\* C8: every message written has a date of exactly 20 bytes, a to name and a
\* from name of at most 35 bytes before the null and a subject of at most 71.
C8_FieldBounds ==
    \A i \in 1..Len(writes) :
        Len(writes[i]) = 7 =>
            /\ Len(writes[i][3]) = DATE_LEN
            /\ Scan(writes[i][4], 0, {NUL}) <= NAME_MAX
            /\ Len(writes[i][4]) <= NAME_MAX + 1
            /\ writes[i][4][Len(writes[i][4])] = NUL
            /\ Scan(writes[i][5], 0, {NUL}) <= NAME_MAX
            /\ Len(writes[i][5]) <= NAME_MAX + 1
            /\ writes[i][5][Len(writes[i][5])] = NUL
            /\ Scan(writes[i][6], 0, {NUL}) <= SUBJECT_MAX
            /\ Len(writes[i][6]) <= SUBJECT_MAX + 1
            /\ writes[i][6][Len(writes[i][6])] = NUL
            /\ Flatten(Flatten(writes)) = Slice(file, PKT_HEADER_LEN, Len(file) - 2) \/ origin.cut

\* C8 happens: a message with a to name, a from name and a subject over the
\* limits was written.
C8_Witness ==
    \E i \in 1..Len(writes) :
        /\ Len(writes[i]) = 7
        /\ Len(origin.msgs[i].to_name) > NAME_MAX
        /\ Len(origin.msgs[i].from_name) > NAME_MAX
        /\ Len(origin.msgs[i].subject) > SUBJECT_MAX

\* Every null of the texts of the inbound packet is followed neither by 0 nor
\* by the word 2, and there is such a null.
OnlyStrayNulls ==
    /\ origin.kind = "inbound"
    /\ ~origin.cut
    /\ origin.tail = EndMarker
    /\ \E i \in 1..Len(origin.msgs) : \E k \in 1..Len(origin.msgs[i].text) :
          origin.msgs[i].text[k] = NUL
    /\ \A i \in 1..Len(origin.msgs) : \A k \in 1..Len(origin.msgs[i].text) :
          origin.msgs[i].text[k] = NUL =>
             LET m == origin.msgs[i]
                 rest == SubSeq(m.text, k + 1, Len(m.text)) \o <<NUL>>
                         \o (IF i < Len(origin.msgs) THEN <<2, 0>> ELSE <<0, 0>>)
             IN rest[1] # 0 /\ ~(rest[1] = 2 /\ rest[2] = 0)

\* C9: repair_packet on such a packet returns a packet with no embedded null,
\* with as many messages as the input, that ends with the end-of-packet marker.
C9_RepairKeepsPacket ==
    (Repaired /\ OnlyStrayNulls) =>
        /\ repaired.outcome = "returned"
        /\ AnalyzePacket(repaired.data).embedded_nulls = <<>>
        /\ AnalyzePacket(repaired.data).messages = Len(origin.msgs)
        /\ Len(repaired.data) >= 2
        /\ SubSeq(repaired.data, Len(repaired.data) - 1, Len(repaired.data)) = <<0, 0>>

\* The calls of the client that have ended by raising one of the three
\* classes _check_resp tells apart.
ResponseErrors == {"NNTPPermanentError", "NNTPTemporaryError", "NNTPReplyError"}

\* C11: whatever the operation, a call that ends on a response code of 500
\* or more raises the permanent error, on a code from 400 to 499 the
\* temporary error, and the reply error only on a code below 400.
C11_ErrorClassByCode ==
    (client.pc = "idle" /\ client.result.kind = "raised"
        /\ client.result.error \in ResponseErrors) =>
        /\ client.resp.code >= 500 => client.result.error = "NNTPPermanentError"
        /\ client.resp.code \in 400..499 => client.result.error = "NNTPTemporaryError"
        /\ client.resp.code < 400 => client.result.error = "NNTPReplyError"

\* A line of an article as it goes on the wire.
OnWire(line) == (IF line # <<>> /\ line[1] = DOT THEN <<DOT>> ELSE <<>>) \o line \o CRLF

\* C12: post sends POST first and nothing more until it has read 340; then
\* it sends every line of the article, one terminating '.' line and no other
\* lone '.', reads one response, and returns only on 240.
C12_PostSequence ==
    /\ [](client.op = "post" =>
            /\ sent # <<>> /\ sent[1] = Cmd.POST \o CRLF
            /\ client.stage = "post" => Len(sent) = 1
            /\ client.stage = "data" =>
                  LET lines == SplitOn(client.data, LF)
                  IN /\ Len(sent) = Len(lines) + 2
                     /\ \A i \in 1..Len(lines) : sent[i + 1] = OnWire(lines[i])
                     /\ sent[Len(sent)] = <<DOT>> \o CRLF
                     /\ \A i \in 2..(Len(sent) - 1) : sent[i] # <<DOT>> \o CRLF
            /\ client.result.kind = "returned" =>
                  client.stage = "data" /\ client.resp.code = 240 /\ inbox = <<>>)
    /\ [][(client.op = "post" /\ client.pc = "getresp" /\ sent' # sent) =>
            inbox # <<>> /\ GetResp(Head(inbox)).code = 340]_vars

C12_Witness ==
    /\ client.op = "post" /\ client.data = Sample.DOTS
    /\ client.result.kind = "returned"
    /\ Len(sent) = 6

\* C15: login sends AUTHINFO USER first and AUTHINFO PASS only after 381;
\* a login that ends on any code but 281 raises the permanent error and the
\* client is not authenticated.
C15_LoginSequence ==
    client.op = "login" =>
        /\ sent[1] = Cmd.AUTH_USER \o Sample.USER \o CRLF
        /\ Len(sent) <= 2
        /\ Len(sent) = 2 => client.stage = "pass" /\ sent[2] = Cmd.AUTH_PASS \o Sample.PASS \o CRLF
        /\ (client.pc = "idle" /\ client.result.kind = "returned") =>
              client.resp.code = 281 /\ client.authenticated
        /\ (client.pc = "idle" /\ client.resp.code \notin {0, 281}) =>
              /\ client.result = [kind |-> "raised", error |-> "NNTPPermanentError", value |-> <<>>]
              /\ ~client.authenticated

\* C16: xover sends OVER first; it sends XOVER only on reading a 4xx or 5xx
\* answer to OVER, once; and the call ends when the terminating line of the
\* answer to XOVER is read.
C16_XoverFallback ==
    /\ [](client.op = "xover" =>
            /\ sent # <<>> /\ sent[1] = Cmd.OVER \o Sample.RANGE \o CRLF
            /\ Len(sent) <= 2
            /\ Len(sent) = 2 <=> client.stage = "xover"
            /\ Len(sent) = 2 => sent[2] = Cmd.XOVER \o Sample.RANGE \o CRLF)
    /\ [][(client.op = "xover" /\ client.pc # "idle") =>
            /\ sent' # sent => client.stage = "over" /\ client.resp.code >= 400
            /\ (client.stage = "over" /\ client.resp.code = 224) => sent' = sent
            /\ (client.stage = "xover" /\ client.pc = "getlines" /\ inbox # <<>>
                  /\ LongLine(Head(inbox)).end) => client'.pc = "idle"]_vars

C16_Witness ==
    /\ client.op = "xover" /\ client.stage = "xover" /\ client.pc = "idle"
    /\ client.result.kind = "returned" /\ client.result.value # <<>>
    /\ Len(sent) = 2

\* What group returns for the text of a 211 response: '3 1 3 g' and
\* '42 1 50 test.group'.
GroupValues ==
    [text |-> {<<51, 32, 49, 32, 51, 32, 103>>,
               <<52, 50, 32, 49, 32, 53, 48, 32, 116, 101, 115, 116, 46, 103, 114, 111, 117, 112>>},
     small |-> <<3, 1, 3, <<103>>>>,
     spec |-> <<42, 1, 50, <<116, 101, 115, 116, 46, 103, 114, 111, 117, 112>>>>]

\* C17: group sends 'GROUP name'; on a 211 response with the text 'count
\* first last name' it returns those three numbers and that name, and on any
\* other code it raises and returns nothing.
C17_GroupResult ==
    (client.op = "group" /\ client.pc = "idle") =>
        /\ sent = <<Cmd.GROUP \o client.data \o CRLF>>
        /\ (client.resp.code = 211 /\ client.resp.message \in GroupValues.text) =>
              /\ client.result.kind = "returned"
              /\ client.result.value =
                    IF Len(client.resp.message) = 7 THEN GroupValues.small ELSE GroupValues.spec
        /\ client.resp.code # 211 =>
              client.result.kind = "raised" /\ client.result.value = <<>>
        /\ client.result.kind = "returned" => client.resp.code = 211

C17_Witness ==
    /\ client.op = "group" /\ client.pc = "idle"
    /\ client.data = Sample.TESTGROUP
    /\ client.result.kind = "returned"
    /\ client.result.value = GroupValues.spec

\* C13: of a gated message, a body line that is exactly '.' goes on the wire
\* as '..', and a body line that starts with '.' goes on the wire with one
\* more leading dot.
C13_GatedDotStuffing ==
    (client.op = "post_message" /\ client.stage = "data") =>
        \A message \in GatedMessages :
            client.data = ArticleText(message, Sample.GROUP) =>
                LET body == SplitOn(GatedBody(message), LF)
                    put(i) == sent[Len(sent) - 1 - Len(body) + i]
                IN \A i \in 1..Len(body) :
                       /\ body[i] = <<DOT>> => put(i) = <<DOT, DOT>> \o CRLF
                       /\ (StartsWith(body[i], <<DOT>>) /\ RStrip(body[i]) = body[i]) =>
                              put(i) = <<DOT>> \o body[i] \o CRLF

\* C14: the lines the loop of _getlongresp has collected from a stream that
\* post produced are the first lines of the article; the loop never finds
\* the stream ended without a terminating line, and when it stops at a lone
\* '.' it has collected every line of the article and the stream is used up.
C14_StuffingRoundTrip ==
    LET lines == SplitOn(wire.data, LF)
    IN /\ wire.pc # "lost"
       /\ Len(wire.lines) <= Len(lines)
       /\ wire.lines = SubSeq(lines, 1, Len(wire.lines))
       /\ wire.pc = "done" => wire.lines = lines /\ wire.stream = <<>>

C14_Witness ==
    /\ wire.pc = "done"
    /\ wire.lines = <<<<DOT>>, <<DOT, DOT>>>>

\* C18: two calls of generate_fido_msgid with the same argument, the empty
\* one included, that both return, return the same MSGID.
C18_MsgidDeterministic ==
    \A i, j \in 1..Len(calls) :
        (/\ calls[i].fn = "generate_fido_msgid" /\ calls[j].fn = "generate_fido_msgid"
         /\ calls[i].arg = calls[j].arg
         /\ calls[i].outcome = "returned" /\ calls[j].outcome = "returned") =>
            calls[i].value = calls[j].value

\* The REPLY anchored on '<a@x>' and on '<b@y>': '<a@x> 18f3ce0e' and
\* '<b@y> 6db240c1'.
ReplyFor(token) ==
    IF token = Ids.A THEN <<60, 97, 64, 120, 62, 32, 49, 56, 102, 51, 99, 101, 48, 101>>
    ELSE <<60, 98, 64, 121, 62, 32, 54, 100, 98, 50, 52, 48, 99, 49>>

\* C19: generate_fido_reply gives the empty REPLY for a References header
\* without a token, and otherwise the last token without its delimiters in
\* '<' '>', a space, and the 8 hex digits of the CRC32 of that token; two
\* headers with the same last token give the same REPLY.
C19_ReplyFromLastToken ==
    \A i \in 1..Len(calls) :
        calls[i].fn = "generate_fido_reply" =>
            LET tokens == SplitWs(calls[i].arg)
            IN /\ tokens = <<>> => calls[i].value = <<>>
               /\ tokens # <<>> => calls[i].value = ReplyFor(tokens[Len(tokens)])
               /\ \A j \in 1..Len(calls) :
                      (/\ calls[j].fn = "generate_fido_reply"
                       /\ tokens # <<>> /\ SplitWs(calls[j].arg) # <<>>
                       /\ SplitWs(calls[j].arg)[Len(SplitWs(calls[j].arg))] = tokens[Len(tokens)]) =>
                          calls[j].value = calls[i].value

C19_Witness ==
    /\ Len(calls) = 2
    /\ calls[1].fn = "generate_fido_reply" /\ calls[1].arg = Ids.A \o <<32>> \o Ids.B
    /\ calls[2].fn = "generate_fido_reply" /\ calls[2].arg = Ids.B
    /\ calls[1].value = calls[2].value

\* C20: a Message-ID '<local@domain>' made into a MSGID by
\* generate_fido_msgid and made back by convert_fido_msgid is the Message-ID
\* again.
C20_MessageIdRoundTrip ==
    \A i, j \in 1..Len(calls) :
        (/\ i < j
         /\ calls[i].fn = "generate_fido_msgid" /\ calls[i].arg \in {Ids.A, Ids.B}
         /\ calls[j].fn = "convert_fido_msgid" /\ calls[j].arg = calls[i].value) =>
            calls[j].value = calls[i].arg

\* C21: for every aware date whose UTC offset is a whole number of minutes
\* between -23:59 and +23:59, parse_tzutc_offset of the string that
\* generate_tzutc_offset gave and a naive date is an aware date of exactly
\* that offset; UTC-5:00 is written '-0500'; no string starts with two minus
\* signs.
C21_TzutcRoundTrip ==
    /\ tz.pc \in {"generated", "round_trip"} /\ tz.date.utcoffset # NoTz =>
          /\ tz.date.utcoffset = -18000 => tz.tzutc = <<45, 48, 53, 48, 48>>
          /\ ~StartsWith(tz.tzutc, <<45, 45>>)
          /\ (tz.tzutc[1] = 45) = (tz.date.utcoffset < 0)
    /\ tz.pc = "round_trip" /\ tz.date.utcoffset # NoTz =>
          /\ tz.parsed.utcoffset # NoTz
          /\ tz.parsed.utcoffset = tz.date.utcoffset
          /\ tz.parsed.wall = NaiveDate.wall

\* The round trip of UTC-5:00 has been made.
C21_Witness ==
    /\ tz.pc = "round_trip"
    /\ tz.date.utcoffset = -18000
    /\ tz.parsed.utcoffset = -18000

\* The net and node the operator means by each configured address that is
\* well formed.
Intended ==
    (Addr.GATEWAY :> <<1, 1>>) @@ (Addr.POINT :> <<5020, 100>>)
        @@ (Addr.WIDE :> <<1, 70000>>) @@ (Addr.LINKED :> <<1, 2>>)

\* The files of the outbound directory that create_packet_file wrote to the
\* end.
WrittenFiles == {i \in 1..Len(fido.outbound) : ~fido.outbound[i].raised}

\* The lines of the text of the k-th message of the file f, read from the
\* bytes of the file.
WrittenLines(f, k) ==
    LET before == SumLen([j \in 1..(k - 1) |-> WriteMessage(f.messages[j]).bytes])
        size == Len(WriteMessage(f.messages[k]).bytes)
        text == Len(MessageWrites(f.messages[k]).writes[7])
        from == PKT_HEADER_LEN + before + size - text
    IN SplitOn(SubSeq(f.bytes, from + 1, from + text - 1), CR)

\* The net/node pairs a SEEN-BY or PATH line names after its prefix, read
\* with the abbreviation of FTS-0004: a number alone is a node of the net
\* named last.
Named(line, prefix) ==
    LET tokens == SplitWs(SubSeq(line, Len(prefix) + 1, Len(line)))
        Net(i) == LET with == {j \in 1..i : 47 \in {tokens[j][n] : n \in 1..Len(tokens[j])}}
                  IN IF with = {} THEN <<>>
                     ELSE LET j == CHOOSE j \in with : \A h \in with : h <= j
                          IN SubSeq(tokens[j], 1, Scan(tokens[j], 0, {47}))
        Node(i) == SubSeq(tokens[i], Scan(tokens[i], 0, {47}) + 2, Len(tokens[i]))
    IN {<<Net(i), IF Scan(tokens[i], 0, {47}) < Len(tokens[i]) THEN Node(i) ELSE tokens[i]>> :
            i \in 1..Len(tokens)}

\* C22: every echomail message made from an NNTP article and written to a
\* packet has one SEEN-BY line naming the net/node of the gateway and of the
\* linked system, and one PATH line naming the net/node of the gateway (the
\* configured addresses being well formed).
C22_SeenByAndPath ==
    \A i \in WrittenFiles : \A k \in 1..Len(fido.outbound[i].messages) :
        LET m == fido.outbound[i].messages[k]
            lines == WrittenLines(fido.outbound[i], k)
            seen_by == SelectSeq(lines, LAMBDA l : StartsWith(l, Lit.SEENBY))
            path == SelectSeq(lines, LAMBDA l : StartsWith(l, <<1, 80, 65, 84, 72, 58>>))
            Pair(address) == <<Dec(Intended[address][1]), Dec(Intended[address][2])>>
        IN m.area = <<84, 69, 83, 84>> /\ {fido.config.gateway_address, fido.config.linked_address}
                                   \subseteq DOMAIN Intended =>
              /\ Len(seen_by) = 1
              /\ Named(seen_by[1], Lit.SEENBY) = {Pair(fido.config.gateway_address),
                                                  Pair(fido.config.linked_address)}
              /\ Len(path) = 1
              /\ Named(path[1], <<1, 80, 65, 84, 72, 58>>) = {Pair(fido.config.gateway_address)}

\* A converted article has been written with both systems in one net, the
\* second abbreviated to its node.
C22_Witness ==
    \E i \in WrittenFiles : \E k \in 1..Len(fido.outbound[i].messages) :
        /\ fido.outbound[i].messages[k].area = <<84, 69, 83, 84>>
        /\ \E n \in 1..Len(WrittenLines(fido.outbound[i], k)) :
              WrittenLines(fido.outbound[i], k)[n] = <<83, 69, 69, 78, 45, 66, 89, 58, 32, 49, 47, 49, 32, 50>>

\* A message in the netmail form: the INTL kludge first, no AREA line, and
\* none of the lines of the trailer.
NetmailForm(lines) ==
    /\ lines # <<>>
    /\ StartsWith(lines[1], <<1, 73, 78, 84, 76, 32>>)
    /\ \A n \in 1..Len(lines) :
          \A prefix \in {Lit.AREA, Lit.TEAR, Lit.ORIGIN, Lit.SEENBY, <<1, 80, 65, 84, 72, 58>>} :
              ~StartsWith(lines[n], prefix)

\* A message in the echomail form: its last five lines are the blank line,
\* the tear line, the origin line, SEEN-BY and PATH.
EchomailForm(lines) ==
    LET n == Len(lines)
    IN /\ n >= 5
       /\ lines[n - 4] = <<>>
       /\ StartsWith(lines[n - 3], Lit.TEAR)
       /\ StartsWith(lines[n - 2], Lit.ORIGIN)
       /\ StartsWith(lines[n - 1], Lit.SEENBY)
       /\ StartsWith(lines[n], <<1, 80, 65, 84, 72, 58>>)

\* C23: every message written to a packet with a non-empty area ends with
\* the trailer (blank line, tear line, origin line, SEEN-BY, PATH, in this
\* order); every one with an empty area is in the netmail form; and the
\* netmail the system itself queues (the areafix reply, the hold
\* notification) is written in the netmail form.
C23_TrailerByKind ==
    \A i \in WrittenFiles : \A k \in 1..Len(fido.outbound[i].messages) :
        LET m == fido.outbound[i].messages[k]
            lines == WrittenLines(fido.outbound[i], k)
        IN /\ Truthy(m, "area") => EchomailForm(lines)
           /\ ~Truthy(m, "area") => NetmailForm(lines)
           /\ m.from_name \in {<<65, 114, 101, 97, 102, 105, 120>>, <<80, 121, 71, 97, 116, 101>>} => NetmailForm(lines)

\* The files the last create_packets opened.
Created == {i \in 1..Len(fido.outbound) :
               \E g \in 1..Len(fido.created) : fido.created[g] = fido.outbound[i].name}

\* How many times the message m occurs in the list messages.
Occurrences(m, messages) == Cardinality({k \in 1..Len(messages) : messages[k] = m})

\* C24: create_packets makes one packet for each destination net/node of the
\* pending messages, every pending message is written into exactly one
\* packet, and the messages of one packet have one destination.
C24_OnePacketPerDestination ==
    fido.packed # <<>> =>
        LET Dest(m) == <<m.dest_net, m.dest_node>>
            packed == fido.packed
        IN /\ Cardinality(Created)
                = Cardinality({Dest(packed[k]) : k \in 1..Len(packed)})
           /\ \A i \in Created : i \in WrittenFiles
           /\ \A k \in 1..Len(packed) :
                 /\ Cardinality({i \in Created :
                        Occurrences(packed[k], fido.outbound[i].messages) > 0}) = 1
                 /\ \E i \in Created \cap WrittenFiles :
                        Occurrences(packed[k], fido.outbound[i].messages)
                            = Occurrences(packed[k], packed)
           /\ \A i \in Created :
                 \A a, b \in 1..Len(fido.outbound[i].messages) :
                     Dest(fido.outbound[i].messages[a]) = Dest(fido.outbound[i].messages[b])

\* C25: the files of the outbound directory have pairwise different names,
\* and no step of the program overwrites or removes a file that is there:
\* create_packet_file takes a name no file has, also for the second packet
\* of one second.
C25_NamesNeverCollide ==
    /\ [](\A i, j \in 1..Len(fido.outbound) :
              fido.outbound[i].name = fido.outbound[j].name => i = j)
    /\ [][/\ \A i \in 1..Len(fido.outbound) :
                \E j \in 1..Len(fido'.outbound) : fido'.outbound[j] = fido.outbound[i]
          /\ fido'.packed # fido.packed =>
                Len(fido'.outbound) = Len(fido.outbound) + Len(DestGroups(fido.pending))]_vars

\* Two packets made in the second the gateway started: the second one has
\* the next name.
C25_Witness ==
    /\ fido.clock = Epoch
    /\ Len(fido.outbound) = 2
    /\ fido.outbound[1].name = <<54, 53, 53, 51, 102, 49, 48, 48, 46, 112, 107, 116>>
    /\ fido.outbound[2].name = <<54, 53, 53, 51, 102, 49, 48, 49, 46, 112, 107, 116>>

\* C26: every file of the outbound directory is a complete packet: the
\* header, every message given to create_packet_file, and the two zero bytes
\* of the end marker; a create_packet_file that raised has left no file.
C26_OutboundFilesComplete ==
    \A i \in 1..Len(fido.outbound) :
        LET f == fido.outbound[i]
        IN /\ ~f.raised
           /\ Len(f.bytes) >= PKT_HEADER_LEN + 2
           /\ SubSeq(f.bytes, Len(f.bytes) - 1, Len(f.bytes)) = <<0, 0>>
           /\ Len(f.bytes) = PKT_HEADER_LEN + 2
                  + SumLen([k \in 1..Len(f.messages) |-> WriteMessage(f.messages[k]).bytes])

\* C30: parse_fido_address gives no address for a string whose net or node
\* is not a number, so that with such a gateway or linked address configured
\* no message is queued and no packet is written with components of it.
C30_MalformedAddressIsAnError ==
    \A address \in {fido.config.gateway_address, fido.config.linked_address} :
        fido.config # NoConfig /\ address \notin DOMAIN Intended =>
            /\ ParseFidoAddress(address).error
            /\ \A k \in 1..Len(fido.pending) :
                  ~Truthy(fido.pending[k], "seen_by") /\ ~Truthy(fido.pending[k], "path")
            /\ WrittenFiles = {}


\* C27: in one import run a corrupt packet never prevents the processing of
\* the valid packets: the run never stops while a valid packet that was in
\* the inbound directory at its start is still waiting to be parsed.
C27_CorruptNeverBlocks ==
    run.pc \notin {"idle", "running", "done"} =>
        \A n \in run.todo : Broken(packets[n])


\* C28: inside a valid packet the failure of one message (a call of the
\* message loop that raises) is skipped: once the run has taken the packet
\* out of the inbound directory every message parsed from it has been
\* handled, and the packet is not in the bad directory.
C28_MessageFailureIsSkipped ==
    \A n \in PacketNames :
        (n \in processed_dir \cup bad_dir /\ ~Broken(packets[n])) =>
            /\ Len(handled[n]) = Len(ParsePacket(packets[n].data).msgs)
            /\ \A i \in 1..Len(handled[n]) : handled[n][i] # "raised"
            /\ n \notin bad_dir


\* C29: a message whose post was answered with a 4xx error stays pending:
\* its packet is not renamed into processed with the message undelivered.
C29_TemporaryFailureStaysPending ==
    \A n \in PacketNames :
        (\E i \in 1..Len(handled[n]) : handled[n][i] = "failed_4xx") =>
            n \notin processed_dir


\* C32: an 'AREA:' line sets the area of a parsed message only when it is the
\* first line of the text that is not a kludge; an 'AREA:' line after other
\* non-kludge text leaves the area alone and is a line of the body.
C32_AreaOnlyFirstLine ==
    (/\ origin.kind = "inbound" /\ ~origin.cut /\ origin.tail = EndMarker
     /\ Len(origin.msgs) = 1 /\ origin.msgs[1].text \in AreaTexts
     /\ Parsed /\ parsed.outcome = "returned" /\ Len(parsed.msgs) = 1) =>
        LET lines == SelectSeq(SplitOn(origin.msgs[1].text, CR), LAMBDA l : l # <<>>)
            text_lines == SelectSeq(lines, LAMBDA l : ~StartsWith(l, <<1>>))
            body == SplitOn(parsed.msgs[1].text, LF)
        IN /\ parsed.msgs[1].area =
                 (IF StartsWith(text_lines[1], Lit.AREA)
                  THEN SubSeq(text_lines[1], 6, Len(text_lines[1])) ELSE <<>>)
           /\ \A i \in 2..Len(text_lines) :
                 StartsWith(text_lines[i], Lit.AREA) =>
                     \E j \in 1..Len(body) : body[j] = text_lines[i]


\* C40: no queued message is lost by packing: when the file of a destination
\* group could not be written, the messages of that group are still in the
\* pending queue after create_packets.
C40_FailedGroupStaysPending ==
    \A i \in Created :
        fido.outbound[i].raised =>
            \A k \in 1..Len(fido.outbound[i].messages) :
                Occurrences(fido.outbound[i].messages[k], fido.pending) > 0


\* C39: each areafix request is executed at most once, whatever areafix-only
\* and import runs are made over the inbound directory.
C39_AreafixAtMostOnce ==
    \A n \in PacketNames : \A i \in 1..MaxMsgs : executed[n][i] <= 1


C36_ExportProgress ==
    [](export.last > export.last_article /\ export.first <= export.last
          => <>(export.last_article >= export.last))

\* C31: within a run the NNTP module has at most one socket open, and when
\* the run has ended every socket it opened has been closed by quit() (QUIT
\* sent, socket closed), after success and after every failure, a failed
\* login included.
C31_ConnectionsClosed ==
    /\ Cardinality({i \in 1..Len(session.sockets) : session.sockets[i] = "open"}) <= 1
    /\ session.pc = "ended" =>
          \A i \in 1..Len(session.sockets) : session.sockets[i] = "quit"

\* C33: the automation lock prevents concurrent execution: of the gate.py
\* processes started while no live holder of the lock exists, at most one is
\* past check_lock, in the import/export cycle, at any time.
C33_AtMostOneInCycle ==
    Cardinality({p \in Procs : gate[p].pc = "cycle"}) <= 1

\* C34: the lock file of a running process is removed only by that process:
\* whenever the lock file holding the PID of a process that is in its cycle
\* is removed, the step is a step of that process.
C34_OnlyHolderRemoves ==
    [][\A q \in Procs :
          gate[q].pc = "cycle" /\ lock.inode # 0 /\ lock.content = q /\ lock'.inode = 0
             => gate'[q].pc # gate[q].pc]_vars

\* C37: after any sequence of hold, approve, reject and release calls every
\* hold id is in at most one of pending, approved and rejected; approve and
\* reject act only on a pending id and otherwise fail and change no set;
\* release acts only on an approved id; and no id returns to pending.
C37_HoldSetsDisjoint ==
    /\ [](/\ hold.pending \cap hold.approved = {}
          /\ hold.pending \cap hold.rejected = {}
          /\ hold.approved \cap hold.rejected = {})
    /\ [][/\ hold'.last.op \in {"approve", "reject"} /\ hold'.last # hold.last =>
               IF hold'.last.id \in hold.pending
               THEN hold'.last.ok /\ hold'.last.id \notin hold'.pending
               ELSE /\ ~ hold'.last.ok
                    /\ hold'.pending = hold.pending
                    /\ hold'.approved = hold.approved
                    /\ hold'.rejected = hold.rejected
          /\ hold'.last.op = "release" /\ hold'.last # hold.last =>
               IF hold'.last.id \in hold.approved
               THEN hold'.last.ok /\ hold'.approved = hold.approved \ {hold'.last.id}
               ELSE /\ ~ hold'.last.ok
                    /\ hold'.pending = hold.pending
                    /\ hold'.approved = hold.approved
                    /\ hold'.rejected = hold.rejected
          /\ \A i \in 1..hold.made : i \notin hold.pending => i \notin hold'.pending]_vars

\* An approve of an id that is no longer pending has failed, while one id
\* is approved, one rejected and one released.
C37_Witness ==
    /\ hold.last = [op |-> "approve", id |-> hold.last.id, ok |-> FALSE]
    /\ hold.last.id \in hold.rejected
    /\ hold.approved # {}
    /\ hold.backup # {}

\* C38: an approved held message leaves the approved set only when it has
\* been delivered: a message whose posting to NNTP, or whose queuing and
\* packing for FidoNet, failed is still approved after the run; and a
\* message is delivered at most once and only in the direction of its hold
\* record.
C38_ReleasedOnlyWhenDelivered ==
    /\ \A i \in hold.backup :
          hold.delivered[i][hold.direction[i]] >= 1
    /\ \A i \in HoldIds :
          /\ hold.delivered[i].nntp + hold.delivered[i].fidonet <= 1
          /\ hold.delivered[i].nntp > 0 => hold.direction[i] = "nntp"
          /\ hold.delivered[i].fidonet > 0 => hold.direction[i] = "fidonet"

====
